---- MODULE Spec2Model ----
(***************************************************************************)
(* A model of the shader loading and repair code of source/main.go.        *)
(* Texts are TLA+ strings, read as sequences of bytes: Len, SubSeq and \o  *)
(* are Go's len, slicing and concatenation.  Positions are 1-based here    *)
(* and 0-based in the source.                                              *)
(***************************************************************************)
EXTENDS Integers, Sequences, FiniteSets, TLC

VARIABLES
    pc,                 \* position of the running function
    args,               \* os.Args[1:], the command-line arguments
    mode,               \* run mode decided by main
    parentHWND,         \* main's parentHWND, the preview's parent window handle
    shaderJSONData,     \* the embedded container (main.go:48)
    shaderData,         \* *ShaderData returned by loadEmbeddedShader, or Nil
    err,                \* error returned by loadEmbeddedShader / getMainShaderCode
    panicked,           \* a Go run-time panic (index or slice out of range)
    mainPass,           \* getMainShaderCode: 1-based index of the pass chosen, 0 for nil
    passCode,           \* mainPass.Code, the text handed to the function under way
    prev,               \* the text before the last stage ran
    code,               \* fixShaderCode's local `code`
    uninitializedVars,  \* fixShaderCode's local map: var name -> default value
    fragmentShader,     \* getMainShaderCode's second result
    jsonStr,            \* preprocessJSON: the input text
    idx,                \* preprocessJSON: loop index i (0-based)
    inString,           \* preprocessJSON: in-string state
    escapeNext,         \* preprocessJSON: escape-lookahead flag
    result,             \* preprocessJSON: strings.Builder result
    emitted,            \* preprocessJSON: per byte read, what was written for it
    scopeLines,         \* findFunctionScope: its argument `lines`
    scopeIndex,         \* findFunctionScope: its argument lineIndex (1-based)
    funcScope,          \* findFunctionScope: what it returned
    typeName,           \* determineVariableType: its argument varName
    typeLines,          \* determineVariableType: its argument `lines`
    typeIndex,          \* determineVariableType: its argument lineIndex (1-based)
    typeValue,          \* determineVariableType: what it returned
    now,                \* the clock read by time.Now(), in ticks; 0 is the zero time
    startTime,          \* runScreensaverMode: startTime
    currentTime,        \* runScreensaverMode: currentTime of the frame under way
    shouldExit,         \* runScreensaverMode: shouldExit
    exitStartTime,      \* runScreensaverMode: exitStartTime
    fadeValue,          \* runScreensaverMode: fadeValue of the last frame drawn
    pressed,            \* a key or button press waits for glfw.PollEvents
    shouldClose         \* the window's close flag (window.ShouldClose)

vars == <<pc, args, parentHWND, mode, shaderJSONData, shaderData, err, panicked, mainPass, passCode, prev, code,
          uninitializedVars, fragmentShader, jsonStr, idx, inString, escapeNext,
          result, emitted, scopeLines, scopeIndex, funcScope,
          typeName, typeLines, typeIndex, typeValue,
          now, startTime, currentTime, shouldExit, exitStartTime, fadeValue, pressed,
          shouldClose>>

loadVars == <<now, startTime, currentTime, shouldExit, exitStartTime, fadeValue, pressed,
              shouldClose, typeName, typeLines, typeIndex, typeValue, scopeLines, scopeIndex, funcScope, args, parentHWND, mode, shaderJSONData, shaderData, err, panicked, mainPass, passCode, prev, code,
              uninitializedVars, fragmentShader>>
jsonVars == <<jsonStr, idx, inString, escapeNext, result, emitted>>
argVars == <<args, parentHWND>>
scopeVars == <<scopeLines, scopeIndex, funcScope>>
typeVars == <<typeName, typeLines, typeIndex, typeValue>>
renderVars == <<now, startTime, currentTime, shouldExit, exitStartTime, fadeValue, pressed,
                shouldClose>>

Nil == "<nil>"
\* findFunctionScope is not under way
IdleScope == scopeLines = <<>> /\ scopeIndex = 0 /\ funcScope = Nil
\* determineVariableType is not under way
IdleType == typeName = "" /\ typeLines = <<>> /\ typeIndex = 0 /\ typeValue = Nil
\* the render loop is not under way
IdleRender ==
    /\ now = 0 /\ startTime = 0 /\ currentTime = 0 /\ exitStartTime = 0
    /\ shouldExit = FALSE /\ pressed = FALSE /\ shouldClose = FALSE /\ fadeValue = Nil
\* a *ShaderData: the nil pointer, or a pointer to a ShaderData with its Passes
NilData == [nil |-> TRUE, Passes |-> <<>>]
Data(passes) == [nil |-> FALSE, Passes |-> passes]

(***************************************************************************)
(* Bytes and byte classes.                                                 *)
(***************************************************************************)
Lower == {"a","b","c","d","e","f","g","h","i","j","k","l","m",
          "n","o","p","q","r","s","t","u","v","w","x","y","z"}
Upper == {"A","B","C","D","E","F","G","H","I","J","K","L","M",
          "N","O","P","Q","R","S","T","U","V","W","X","Y","Z"}
Digit == {"0","1","2","3","4","5","6","7","8","9"}

\* regexp \w
IsWord(c) == c \in Lower \cup Upper \cup Digit \cup {"_"}
\* regexp [a-zA-Z_]
IsIdentStart(c) == c \in Lower \cup Upper \cup {"_"}
\* regexp \s is [\t\n\f\r ]
IsSpace(c) == c \in {" ", "\t", "\n", "\f", "\r"}
\* the bytes below 0x20 a TLA+ string can hold, with their values
ControlBytes == {"\t", "\n", "\f", "\r"}
ByteValue(c) == CASE c = "\t" -> 9 [] c = "\n" -> 10 [] c = "\f" -> 12 [] c = "\r" -> 13

\* the byte at 1-based position k, "" outside the text
At(s, k) == IF 1 <= k /\ k <= Len(s) THEN SubSeq(s, k, k) ELSE ""
From(s, k) == SubSeq(s, k, Len(s))

\* the element of a one-element set; {F(r) : r \in {e}} computes e once
Only(S) == CHOOSE v \in S : TRUE
Min(S) == CHOOSE x \in S : \A y \in S : x <= y
Max(S) == CHOOSE x \in S : \A y \in S : x >= y

(***************************************************************************)
(* Go's strings package.  Index is 1-based, 0 when absent (Go: -1).        *)
(***************************************************************************)
HasPrefixAt(s, k, sub) ==
    1 <= k /\ k + Len(sub) - 1 <= Len(s) /\ SubSeq(s, k, k + Len(sub) - 1) = sub
Contains(s, sub) == \E p \in 1..(Len(s) - Len(sub) + 1) : HasPrefixAt(s, p, sub)
IndexFrom(s, sub, k) ==
    LET P == {p \in k..(Len(s) - Len(sub) + 1) : HasPrefixAt(s, p, sub)}
    IN  IF P = {} THEN 0 ELSE Min(P)
Index(s, sub) == IndexFrom(s, sub, 1)
HasSuffix(s, sub) == Len(s) >= Len(sub) /\ SubSeq(s, Len(s) - Len(sub) + 1, Len(s)) = sub
\* strings.Count for a one-byte separator
Count(s, c) == Cardinality({p \in 1..Len(s) : At(s, p) = c})

RECURSIVE Split(_, _)
Split(s, sep) ==
    LET p == Index(s, sep)
    IN  IF p = 0 THEN <<s>>
        ELSE <<SubSeq(s, 1, p - 1)>> \o Split(From(s, p + Len(sep)), sep)

RECURSIVE Join(_, _)
Join(ls, sep) ==
    IF Len(ls) = 0 THEN ""
    ELSE IF Len(ls) = 1 THEN ls[1]
    ELSE ls[1] \o sep \o Join(Tail(ls), sep)

\* strings.TrimLeft(s, cutset) and strings.TrimSpace
RECURSIVE TrimLeftSet(_, _)
TrimLeftSet(s, cut) ==
    IF Len(s) > 0 /\ At(s, 1) \in cut THEN TrimLeftSet(From(s, 2), cut) ELSE s
RECURSIVE TrimRightSet(_, _)
TrimRightSet(s, cut) ==
    IF Len(s) > 0 /\ At(s, Len(s)) \in cut THEN TrimRightSet(SubSeq(s, 1, Len(s) - 1), cut) ELSE s
TrimSpace(s) == TrimRightSet(TrimLeftSet(s, {" ", "\t", "\n", "\f", "\r"}), {" ", "\t", "\n", "\f", "\r"})

RECURSIVE Repeat(_, _)
Repeat(s, n) == IF n <= 0 THEN "" ELSE s \o Repeat(s, n - 1)

\* strings.Replace(s, old, new, 1)
ReplaceFirst(s, old, new) ==
    LET p == Index(s, old)
    IN  IF p = 0 THEN s ELSE SubSeq(s, 1, p - 1) \o new \o From(s, p + Len(old))

\* all strings over alphabet A of length n, and of length at most n
RECURSIVE StringsOfLen(_, _)
StringsOfLen(A, n) ==
    IF n = 0 THEN {""} ELSE {s \o c : s \in StringsOfLen(A, n - 1), c \in A}
StringsUpTo(A, n) == UNION {StringsOfLen(A, k) : k \in 0..n}

(***************************************************************************)
(* The regular expressions of the repair code, matched as Go's regexp      *)
(* matches them (leftmost match, greedy repetitions).                      *)
(***************************************************************************)
\* the position after a greedy \s* from position k
RECURSIVE SkipSpace(_, _)
SkipSpace(s, k) == IF k <= Len(s) /\ IsSpace(At(s, k)) THEN SkipSpace(s, k + 1) ELSE k
\* the position after a greedy \w* from position k
RECURSIVE SkipWord(_, _)
SkipWord(s, k) == IF k <= Len(s) /\ IsWord(At(s, k)) THEN SkipWord(s, k + 1) ELSE k
\* regexp \b between positions k-1 and k
WordBoundary(s, k) == IsWord(At(s, k - 1)) # IsWord(At(s, k))

TypeNames == {"vec2", "vec3", "vec4", "float", "int", "bool"}
MatNames == {"mat2", "mat3", "mat4"}
\* (vec[234]|float|int|bool) or (vec[234]|float|int|bool|mat[234]) at position
\* k: the keyword matched, "" when none
TypeAt(s, k, names) ==
    LET c == {t \in names : HasPrefixAt(s, k, t)}
    IN  IF c = {} THEN "" ELSE CHOOSE t \in c : TRUE

\* main.go:892-907 (and 394-407, 417-430, 694-707): the zero value of a type
ZeroValue(varType) ==
    CASE varType = "vec2" -> "vec2(0.0)"
      [] varType = "vec3" -> "vec3(0.0)"
      [] varType = "vec4" -> "vec4(0.0)"
      [] varType = "float" -> "0.0"
      [] varType = "int" -> "0"
      [] varType = "bool" -> "false"
      [] OTHER -> "0.0"

\* `\b(T)\s+` + name + `\s*[=;]` matches at position k
DeclAt(s, k, name, names) ==
    LET t == TypeAt(s, k, names)
        a == k + Len(t)
        b == SkipSpace(s, a)
    IN  /\ t # "" /\ WordBoundary(s, k)
        /\ b > a /\ HasPrefixAt(s, b, name)
        /\ At(s, SkipSpace(s, b + Len(name))) \in {"=", ";"}
\* main.go:532, 647, 746, ...: declPattern.MatchString(s)
DeclMatch(s, name, names) == \E k \in 1..Len(s) : DeclAt(s, k, name, names)

\* main.go:524: `\b(out|in|inout)\s+(T|mat[234])\s+` + name + `\s*[,)]` at k
ParamAt(s, k, name) ==
    /\ WordBoundary(s, k)
    /\ \E q \in {"out", "in", "inout"} :
        /\ HasPrefixAt(s, k, q)
        /\ LET a == k + Len(q)
               b == SkipSpace(s, a)
               t == TypeAt(s, b, TypeNames \cup MatNames)
               c == b + Len(t)
               d == SkipSpace(s, c)
           IN  /\ b > a /\ t # "" /\ d > c
               /\ HasPrefixAt(s, d, name)
               /\ At(s, SkipSpace(s, d + Len(name))) \in {",", ")"}
ParamMatch(s, name) == \E k \in 1..Len(s) : ParamAt(s, k, name)

\* main.go:379: `\b(T)\s+\w+\s*=` at k; main.go:691: `\b(T)\s+\w+` at k
TypeDeclAt(s, k, needAssign) ==
    LET t == TypeAt(s, k, TypeNames)
        a == k + Len(t)
        b == SkipSpace(s, a)
        c == SkipWord(s, b)
    IN  /\ t # "" /\ WordBoundary(s, k) /\ b > a /\ c > b
        /\ needAssign => At(s, SkipSpace(s, c)) = "="
\* group 1 of the leftmost match, "" when there is none
TypeDeclFind(s, needAssign) ==
    LET P == {k \in 1..Len(s) : TypeDeclAt(s, k, needAssign)}
    IN  IF P = {} THEN "" ELSE TypeAt(s, Min(P), TypeNames)

\* main.go:669 chainVarPattern `,\s+(\w+)\s*;` at k
ChainAt(s, k) ==
    LET a == SkipSpace(s, k + 1)
        b == SkipWord(s, a)
    IN  At(s, k) = "," /\ a > k + 1 /\ b > a /\ At(s, SkipSpace(s, b)) = ";"
\* group 1 of the leftmost match, "" when there is none
ChainFind(s) ==
    LET P == {k \in 1..Len(s) : ChainAt(s, k)}
    IN  IF P = {} THEN ""
        ELSE SubSeq(s, SkipSpace(s, Min(P) + 1), SkipWord(s, SkipSpace(s, Min(P) + 1)) - 1)

\* main.go:673 standaloneVarPattern `^\s*(\w+)\s*;`: group 1, "" when no match
StandaloneFind(s) ==
    LET a == SkipSpace(s, 1)
        b == SkipWord(s, a)
    IN  IF b > a /\ At(s, SkipSpace(s, b)) = ";" THEN SubSeq(s, a, b - 1) ELSE ""

\* main.go:828 `\b(T)\s+(\w+)\s*;` at k
UninitDeclAt(s, k) ==
    LET t == TypeAt(s, k, TypeNames)
        a == k + Len(t)
        b == SkipSpace(s, a)
        c == SkipWord(s, b)
    IN  /\ t # "" /\ WordBoundary(s, k) /\ b > a /\ c > b
        /\ At(s, SkipSpace(s, c)) = ";"
\* groups 1 and 2 of the leftmost match, varName "" when there is none
UninitDeclFind(s) ==
    LET P == {k \in 1..Len(s) : UninitDeclAt(s, k)}
    IN  IF P = {} THEN [varType |-> "", varName |-> ""]
        ELSE LET k == Min(P)
                 t == TypeAt(s, k, TypeNames)
                 b == SkipSpace(s, k + Len(t))
             IN  [varType |-> t, varName |-> SubSeq(s, b, SkipWord(s, b) - 1)]

\* main.go:501 `^\s*([a-zA-Z_][a-zA-Z0-9_]*)\s*=\s*([^;]+);` (identOnly) and
\* main.go:928 `^\s*(\w+)\s*=\s*([^;]+);`: groups 1 and 2, varName "" when
\* there is no match.  A greedy \s* after the "=" gives its last byte back to
\* ([^;]+) when nothing else stands before the ";".
AssignFind(s, identOnly) ==
    LET a == SkipSpace(s, 1)
        b == IF identOnly /\ ~IsIdentStart(At(s, a)) THEN a ELSE SkipWord(s, a)
        e == SkipSpace(s, b)
        x == SkipSpace(s, e + 1)
        semi == IndexFrom(s, ";", e + 1)
        none == [varName |-> "", expression |-> ""]
    IN  IF b = a \/ At(s, e) # "=" \/ semi = 0 THEN none
        ELSE IF x < semi THEN [varName |-> SubSeq(s, a, b - 1), expression |-> SubSeq(s, x, semi - 1)]
        ELSE IF semi - 1 > e THEN [varName |-> SubSeq(s, a, b - 1), expression |-> At(s, semi - 1)]
        ELSE none

\* main.go:508 typePattern `^\s*(vec[234]|float|int|bool|mat[234])\s+`
TypedLine(s) ==
    LET a == SkipSpace(s, 1)
        t == TypeAt(s, a, TypeNames \cup MatNames)
    IN  t # "" /\ IsSpace(At(s, a + Len(t)))

\* main.go:535-536 varRefPattern `\b([a-zA-Z_][a-zA-Z0-9_]*)`, FindAllString:
\* the matches from position k on, in order
RECURSIVE VarRefs(_, _)
VarRefs(s, k) ==
    IF k > Len(s) THEN <<>>
    ELSE IF WordBoundary(s, k) /\ IsIdentStart(At(s, k))
         THEN <<SubSeq(s, k, SkipWord(s, k) - 1)>> \o VarRefs(s, SkipWord(s, k))
         ELSE VarRefs(s, k + 1)

\* main.go:1053-1054 loopPattern `for\s*\([^)]*\)`, FindAllStringIndex: the
\* matches from position k on as <<start, end>>, start the 1-based position of
\* the "f" and end the position of the ")"
RECURSIVE LoopMatches(_, _)
LoopMatches(s, k) ==
    LET p == IndexFrom(s, "for", k)
        a == SkipSpace(s, p + 3)
        close == IndexFrom(s, ")", a + 1)
    IN  IF p = 0 THEN <<>>
        ELSE IF At(s, a) = "(" /\ close # 0
             THEN <<(<<p, close>>)>> \o LoopMatches(s, close + 1)
             ELSE LoopMatches(s, p + 1)

(***************************************************************************)
(* determineVariableType (main.go:375-488).  Lines are numbered from 1.    *)
(***************************************************************************)
ChainLookback == 20

\* the walk back that goes on past a line that does not end in a comma
RECURSIVE ChainWalk_PastBreak(_, _, _)
ChainWalk_PastBreak(ls, j, lo) ==
    IF j < 1 \/ j < lo THEN ""
    ELSE LET prevLine == TrimSpace(ls[j])
             t == TypeDeclFind(prevLine, TRUE)
         IN  IF prevLine = "" THEN ChainWalk_PastBreak(ls, j - 1, lo)
             ELSE IF t # "" THEN ZeroValue(t)
             ELSE ChainWalk_PastBreak(ls, j - 1, lo)

\* main.go:381-432: the walk back from line j down to line lo; the zero value
\* of the type found, "" when the walk ends without one
RECURSIVE ChainWalk(_, _, _)
ChainWalk(ls, j, lo) ==
    IF j < 1 \/ j < lo THEN ""
    ELSE LET prevLine == TrimSpace(ls[j])
             t == TypeDeclFind(prevLine, TRUE)
         IN  IF prevLine = "" THEN ChainWalk(ls, j - 1, lo)
             ELSE IF ~HasSuffix(prevLine, ",")
                  THEN (IF t # "" THEN ZeroValue(t) ELSE "")
             ELSE IF t # "" THEN ZeroValue(t)
             ELSE ChainWalk(ls, j - 1, lo)

\* main.go:448: varName + `\.([xyzw]{2,4})` matches somewhere
SwizzleMatch(text, varName) ==
    \E k \in 1..Len(text) :
        /\ HasPrefixAt(text, k, varName \o ".")
        /\ At(text, k + Len(varName) + 1) \in {"x", "y", "z", "w"}
        /\ At(text, k + Len(varName) + 2) \in {"x", "y", "z", "w"}

\* the type read from the uses with a three-component vector for `.z`
UsageType_Vec3ForZ(varName, text) ==
    IF Contains(text, varName \o ".w") THEN "vec4(0.0)"
    ELSE IF Contains(text, varName \o ".z") THEN "vec3(0.0)"
    ELSE "vec2(0.0)"

\* main.go:434-487: the type read from the uses of varName
UsageType(varName, text) ==
    IF Contains(text, varName \o ".w") THEN "vec4(0.0)"
    ELSE IF Contains(text, varName \o ".z") THEN "vec4(0.0)"
    ELSE IF SwizzleMatch(text, varName) THEN "vec2(0.0)"
    ELSE IF Contains(text, varName \o ".x") \/ Contains(text, varName \o ".y") THEN "vec2(0.0)"
    ELSE IF \E op \in {" +=", " =", " -=", " *=", " /="} : Contains(text, varName \o op)
         THEN "vec2(0.0)"
    ELSE IF \/ Contains(text, varName \o " ") \/ Contains(text, varName \o "(")
            \/ Contains(text, varName \o ")") \/ Contains(text, "(" \o varName)
         THEN "vec2(0.0)"
    ELSE "vec2(0.0)"

determineVariableType(varName, text, ls, lineIndex) ==
    LET chain == ChainWalk(ls, lineIndex - 1, lineIndex - ChainLookback)
    IN  IF chain # "" THEN chain ELSE UsageType(varName, text)

(***************************************************************************)
(* findFunctionScope (main.go:625-642) and the scope checks of             *)
(* fixShaderCode.  A line number 0 stands for Go's -1.                     *)
(***************************************************************************)
\* main.go:630-632 (and 783-785): the line looks like a function definition
IsFunctionLine(line) ==
    \/ Contains(line, "void ")
    \/ (Contains(line, "float ") /\ Contains(line, "("))
    \/ (Contains(line, "vec") /\ Contains(line, "("))

findFunctionScope(ls, lineIndex) ==
    LET P == {k \in 1..lineIndex : IsFunctionLine(TrimSpace(ls[k]))}
    IN  IF P = {} THEN [funcStart |-> 0, isMainImage |-> FALSE]
        ELSE [funcStart |-> Max(P),
              isMainImage |-> Contains(TrimSpace(ls[Max(P)]), "mainImage")]

\* main.go:735-741: the first line that contains "mainImage", 0 when none
MainImageStart(ls) ==
    LET P == {k \in 1..Len(ls) : Contains(TrimSpace(ls[k]), "mainImage")}
    IN  IF P = {} THEN 0 ELSE Min(P)

\* main.go:743-751: varName has a typed declaration from that line on
DeclaredInMainImage(ls, varName) ==
    /\ MainImageStart(ls) >= 1
    /\ DeclMatch(Join(SubSeq(ls, MainImageStart(ls), Len(ls)), "\n"), varName, TypeNames)

\* main.go:779-797: varName has a typed declaration before the first
\* function line that precedes line lineIndex
DeclaredBeforeFirstFunction(ls, lineIndex, varName) ==
    LET P == {k \in 1..(lineIndex - 1) : IsFunctionLine(TrimSpace(ls[k]))}
    IN  P # {} /\ DeclMatch(Join(SubSeq(ls, 1, Min(P) - 1), "\n"), varName, TypeNames)

Keywords == {"if", "for", "while", "return"}

\* main.go:805-809 and 879-887
IsUsed(text, varName) ==
    \/ \E suf \in {" ", ".", "+", "-", "*", "/", "=", ")"} : Contains(text, varName \o suf)
    \/ Contains(text, "(" \o varName)

\* main.go:816-818: the leading blanks and tabs of a line
Indent(line) == SubSeq(line, 1, Len(line) - Len(TrimLeftSet(line, {" ", "\t"})))

\* the map with m[name] = value
MapSet(m, name, value) ==
    [n \in DOMAIN m \cup {name} |-> IF n = name THEN value ELSE m[n]]
EmptyMap == [n \in {} |-> ""]

(***************************************************************************)
(* preprocessJSON (main.go:236-296), one action per loop iteration.        *)
(***************************************************************************)
HexDigit(d) == At("0123456789abcdef", d + 1)
\* fmt.Sprintf("\\u%04x", char) for a byte
UnicodeEscape(c) ==
    "\\u00" \o HexDigit(ByteValue(c) \div 16) \o HexDigit(ByteValue(c) % 16)

\* a count that is odd whatever precedes the quote
BackslashCount_Odd(s, j) == 1

\* main.go:264-267: the backslashes directly before 0-based position j+1
RECURSIVE BackslashCount(_, _)
BackslashCount(s, j) ==
    IF j >= 0 /\ At(s, j + 1) = "\\" THEN 1 + BackslashCount(s, j - 1) ELSE 0

\* main.go:276-292: what is written for byte c that is neither escaped, a
\* backslash nor a quote
EscapeInString(c) ==
    IF c = "\n" THEN "\\n"
    ELSE IF c = "\r" THEN "\\r"
    ELSE IF c = "\t" THEN "\\t"
    ELSE IF c \in ControlBytes THEN UnicodeEscape(c)
    ELSE c

char == At(jsonStr, idx + 1)

Emit(out) ==
    /\ result' = result \o out
    /\ emitted' = Append(emitted, [char |-> char, inString |-> inString, out |-> out])
    /\ idx' = idx + 1
    /\ UNCHANGED <<pc, jsonStr>>
    /\ UNCHANGED loadVars

InLoop == pc = "preprocessJSON" /\ idx < Len(jsonStr)

\* main.go:249-253
EscapedByte ==
    /\ InLoop /\ escapeNext
    /\ escapeNext' = FALSE
    /\ UNCHANGED inString
    /\ Emit(char)

\* main.go:255-259
BackslashByte ==
    /\ InLoop /\ ~escapeNext /\ char = "\\"
    /\ escapeNext' = TRUE
    /\ UNCHANGED inString
    /\ Emit(char)

\* main.go:261-274
QuoteByte ==
    /\ InLoop /\ ~escapeNext /\ char = "\""
    /\ inString' = IF BackslashCount(jsonStr, idx - 1) % 2 = 0 THEN ~inString ELSE inString
    /\ UNCHANGED escapeNext
    /\ Emit(char)

\* main.go:276-289
StringByte ==
    /\ InLoop /\ ~escapeNext /\ char \notin {"\\", "\""} /\ inString
    /\ UNCHANGED <<inString, escapeNext>>
    /\ Emit(EscapeInString(char))

\* the branch of main.go:290-292 escaping as the in-string branch does
PlainByte_Escaped ==
    /\ InLoop /\ ~escapeNext /\ char \notin {"\\", "\""} /\ ~inString
    /\ UNCHANGED <<inString, escapeNext>>
    /\ Emit(EscapeInString(char))

\* main.go:290-292
PlainByte ==
    /\ InLoop /\ ~escapeNext /\ char \notin {"\\", "\""} /\ ~inString
    /\ UNCHANGED <<inString, escapeNext>>
    /\ Emit(char)

\* main.go:295
PreprocessReturn ==
    /\ pc = "preprocessJSON" /\ idx = Len(jsonStr)
    /\ pc' = "preprocessed"
    /\ err' = Nil
    /\ UNCHANGED <<mode, shaderJSONData, shaderData, panicked, mainPass, passCode, prev,
                   code, uninitializedVars, fragmentShader>>
    /\ UNCHANGED <<jsonVars, argVars, scopeVars, typeVars, renderVars>>

\* the bytes the inputs of preprocessJSON are drawn from
JsonAlphabet == {"\"", "\\", "\n", "\t", "\f", "a"}
MaxJsonLen == 4

IdleLoad ==
    /\ args = <<>> /\ parentHWND = 0
    /\ IdleScope /\ IdleType /\ IdleRender
    /\ mode = Nil /\ shaderJSONData = Nil /\ shaderData = NilData /\ err = Nil
    /\ panicked = FALSE /\ mainPass = 0 /\ passCode = "" /\ prev = "" /\ code = ""
    /\ uninitializedVars = EmptyMap /\ fragmentShader = ""
IdleJSON ==
    /\ jsonStr = "" /\ idx = 0 /\ inString = FALSE /\ escapeNext = FALSE
    /\ result = "" /\ emitted = <<>>

InitJSON ==
    /\ pc = "preprocessJSON"
    /\ jsonStr \in StringsUpTo(JsonAlphabet, MaxJsonLen)
    /\ idx = 0 /\ inString = FALSE /\ escapeNext = FALSE
    /\ result = "" /\ emitted = <<>>
    /\ IdleLoad

NextJSON ==
    \/ EscapedByte
    \/ BackslashByte
    \/ QuoteByte
    \/ StringByte
    \/ PlainByte
    \/ PreprocessReturn

SpecJSON == InitJSON /\ [][NextJSON]_vars

\* C4: every byte below 0x20 that preprocessJSON read while its in-string
\* state was set is written as its escape (\n, \r, \t or \u00XX), never raw.
\* The bytes that follow a backslash inside a string are copied as they are
\* (main.go:249-253), so this statement is violated.
C4_ExpectedEscape(c) ==
    CASE c = "\n" -> "\\n" [] c = "\r" -> "\\r" [] c = "\t" -> "\\t" [] c = "\f" -> "\\u000c"
C4_NoRawControlInString ==
    \A k \in 1..Len(emitted) :
        (emitted[k].inString /\ emitted[k].char \in ControlBytes)
            => emitted[k].out = C4_ExpectedEscape(emitted[k].char)

(***************************************************************************)
(* removeComments (main.go:326-372).                                       *)
(***************************************************************************)
\* main.go:334-361: the inner loop over one line from 1-based position k;
\* yields the processed line and the block-comment state after it.  The
\* loop moves byte by byte; between two comment markers every byte takes the
\* same branch, so the run up to the next marker is taken in one step.
\* a line loop that knows no comments and copies every byte
ProcessLine_CopyAll(line, k, inBlockComment, processedLine) ==
    [line |-> line, inBlockComment |-> FALSE]

RECURSIVE ProcessLine(_, _, _, _)
ProcessLine(line, k, inBlockComment, processedLine) ==
    IF k > Len(line) THEN [line |-> processedLine, inBlockComment |-> inBlockComment]
    ELSE IF inBlockComment THEN
        LET close == IndexFrom(line, "*/", k)
        IN  IF close = 0 THEN [line |-> processedLine, inBlockComment |-> TRUE]
            ELSE ProcessLine(line, close + 2, FALSE, processedLine)
    ELSE
        LET open == IndexFrom(line, "/*", k)
            slashes == IndexFrom(line, "//", k)
            marks == {open, slashes} \ {0}
        IN  IF marks = {} THEN
                [line |-> processedLine \o From(line, k), inBlockComment |-> FALSE]
            ELSE IF Min(marks) = open THEN
                ProcessLine(line, open + 2, TRUE, processedLine \o SubSeq(line, k, open - 1))
            ELSE
                [line |-> processedLine \o SubSeq(line, k, slashes - 1),
                 inBlockComment |-> FALSE]

\* main.go:365: whether the processed line is written to the result
EmitLine(trimmed, inBlockComment) == trimmed # "" \/ ~inBlockComment

\* main.go:331-369: the loop over the lines, from line k
RECURSIVE RemoveCommentsFrom(_, _, _, _)
RemoveCommentsFrom(ls, k, inBlockComment, res) ==
    IF k > Len(ls) THEN res
    ELSE Only({RemoveCommentsFrom(ls, k + 1, r.inBlockComment,
                   IF EmitLine(TrimSpace(r.line), r.inBlockComment)
                   THEN res \o r.line \o "\n" ELSE res) :
               r \in {ProcessLine(ls[k], 1, inBlockComment, "")}})

removeComments(text) ==
    Only({RemoveCommentsFrom(lines, 1, FALSE, "") : lines \in {Split(text, "\n")}})

(***************************************************************************)
(* fixShaderCode (main.go:652-1098), stage by stage.  A stage takes the    *)
(* line array and the map, and yields [lines, vars].                       *)
(***************************************************************************)
SetLine(ls, k, line) == [ls EXCEPT ![k] = line]

\* main.go:683-717, pattern 1: ", varName;" in a declaration chain
ChainFix(ls, text, k, m) ==
    LET line == ls[k]
        varName == ChainFind(line)
        sameLine == TypeDeclFind(line, FALSE)
        varType == IF sameLine # "" THEN ZeroValue(sameLine)
                   ELSE determineVariableType(varName, text, ls, k)
    IN  IF Contains(line, varName \o " =") THEN [lines |-> ls, vars |-> m]
        ELSE [lines |-> SetLine(ls, k, ReplaceFirst(line, ", " \o varName \o ";",
                                    ", " \o varName \o " = " \o varType \o ";")),
              vars |-> MapSet(m, varName, varType)]

\* main.go:720-823, pattern 2: a standalone "varName;"
StandaloneFix(ls, text, k, m) ==
    LET line == ls[k]
        varName == StandaloneFind(line)
        scope == findFunctionScope(ls, k)
        same == [lines |-> ls, vars |-> m]
        varType == determineVariableType(varName, text, ls, k)
    IN  IF varName \in Keywords \/ Contains(line, varName \o " =") THEN same
        ELSE IF ~scope.isMainImage /\ scope.funcStart >= 1 /\ DeclaredInMainImage(ls, varName)
             THEN same
        ELSE IF DeclaredInMainImage(ls, varName) \/ DeclaredBeforeFirstFunction(ls, k, varName)
             THEN same
        ELSE IF IsUsed(text, varName)
             THEN [lines |-> SetLine(ls, k, Indent(line) \o varName \o " = " \o varType \o ";"),
                   vars |-> MapSet(m, varName, varType)]
        ELSE same

\* main.go:828-912, pattern 3: "<type> varName;" without initializer
UninitDeclFix(ls, k, m) ==
    LET trimmed == TrimSpace(ls[k])
        d == UninitDeclFind(trimmed)
        scope == findFunctionScope(ls, k)
        same == [lines |-> ls, vars |-> m]
        declaredElsewhere ==
            \/ DeclaredInMainImage(ls, d.varName)
            \/ DeclMatch(Join(SubSeq(ls, 1, scope.funcStart - 1), "\n"), d.varName, TypeNames)
        remainingCode == Join(SubSeq(ls, k + 1, Len(ls)), "\n")
        defaultValue == ZeroValue(d.varType)
    IN  IF Contains(trimmed, d.varName \o " =") THEN same
        ELSE IF ~scope.isMainImage /\ scope.funcStart >= 1 /\ declaredElsewhere THEN same
        ELSE IF IsUsed(remainingCode, d.varName)
             THEN [lines |-> SetLine(ls, k, ReplaceFirst(trimmed, d.varName \o ";",
                                         d.varName \o " = " \o defaultValue \o ";")),
                   vars |-> MapSet(m, d.varName, defaultValue)]
        ELSE same

\* main.go:676-913: one iteration of the first pass, on line k
FirstPassLine(ls, text, k, m) ==
    IF TrimSpace(ls[k]) = "" THEN [lines |-> ls, vars |-> m]
    ELSE IF ChainFind(ls[k]) # "" THEN ChainFix(ls, text, k, m)
    ELSE IF StandaloneFind(ls[k]) # "" THEN StandaloneFix(ls, text, k, m)
    ELSE IF UninitDeclFind(TrimSpace(ls[k])).varName # "" THEN UninitDeclFix(ls, k, m)
    ELSE [lines |-> ls, vars |-> m]

RECURSIVE FirstPassFrom(_, _, _, _)
FirstPassFrom(ls, text, k, m) ==
    IF k > Len(ls) THEN [lines |-> ls, vars |-> m]
    ELSE Only({FirstPassFrom(r.lines, text, k + 1, r.vars) :
               r \in {FirstPassLine(ls, text, k, m)}})

\* main.go:662-915
FirstPass(text, m) ==
    Only({[code |-> Join(r.lines, "\n"), vars |-> r.vars] :
          r \in {FirstPassFrom(lines, text, 1, m) : lines \in {Split(text, "\n")}}})

\* main.go:963-976: the type of a declaration made from an assignment
AssignedType(assignValue) ==
    IF Contains(assignValue, "vec2(") THEN "vec2"
    ELSE IF Contains(assignValue, "vec3(") THEN "vec3"
    ELSE IF Contains(assignValue, "vec4(") THEN "vec4"
    ELSE IF Contains(assignValue, ".") /\ ~Contains(assignValue, "(") THEN "float"
    ELSE "float"

\* the additional pass without its test of the enclosing function
CleanupLine_AnyScope(ls, k) ==
    LET line == ls[k]
        a == AssignFind(line, FALSE)
        beforeCode == Join(SubSeq(ls, 1, k - 1), "\n")
    IN  IF TrimSpace(line) = "" \/ a.varName = "" \/ a.varName \in Keywords THEN ls
        ELSE IF DeclMatch(beforeCode, a.varName, TypeNames) THEN ls
        ELSE IF DeclaredInMainImage(ls, a.varName) THEN SetLine(ls, k, "")
        ELSE SetLine(ls, k, Indent(line) \o AssignedType(a.expression) \o " "
                            \o a.varName \o " = " \o a.expression \o ";")

\* main.go:920-987: one iteration of the additional pass, on line k
CleanupLine(ls, k) ==
    LET line == ls[k]
        a == AssignFind(line, FALSE)
        beforeCode == Join(SubSeq(ls, 1, k - 1), "\n")
        scope == findFunctionScope(ls, k)
    IN  IF TrimSpace(line) = "" \/ a.varName = "" \/ a.varName \in Keywords THEN ls
        ELSE IF DeclMatch(beforeCode, a.varName, TypeNames) THEN ls
        ELSE IF ~(~scope.isMainImage /\ scope.funcStart >= 1) THEN ls
        ELSE IF DeclaredInMainImage(ls, a.varName) THEN SetLine(ls, k, "")
        ELSE SetLine(ls, k, Indent(line) \o AssignedType(a.expression) \o " "
                            \o a.varName \o " = " \o a.expression \o ";")

RECURSIVE CleanupFrom(_, _)
CleanupFrom(ls, k) ==
    IF k > Len(ls) THEN ls
    ELSE Only({CleanupFrom(next, k + 1) : next \in {CleanupLine(ls, k)}})

\* main.go:990-996
RECURSIVE DropEmptyLines(_)
DropEmptyLines(ls) ==
    IF Len(ls) = 0 THEN <<>>
    ELSE IF TrimSpace(Head(ls)) # "" THEN <<Head(ls)>> \o DropEmptyLines(Tail(ls))
    ELSE DropEmptyLines(Tail(ls))

\* main.go:917-997
Cleanup(text) ==
    Only({Join(DropEmptyLines(Split(Join(cleaned, "\n"), "\n")), "\n") :
          cleaned \in {CleanupFrom(lines, 1) : lines \in {Split(text, "\n")}}})

\* main.go:1019-1022
IsUsedSecond(text, varName) ==
    \E suf \in {" ", ".", "+", "-", "*", "/", "="} : Contains(text, varName \o suf)

\* main.go:1002-1038: one iteration of the second sweep, on line k
SecondSweepLine(ls, text, k, m) ==
    LET line == ls[k]
        varName == StandaloneFind(line)
        same == [lines |-> ls, vars |-> m]
        varType == determineVariableType(varName, text, ls, k)
    IN  IF TrimSpace(line) = "" \/ varName = "" THEN same
        ELSE IF Contains(line, varName \o " =") \/ varName \in Keywords THEN same
        ELSE IF /\ IsUsedSecond(text, varName)
                /\ varName \notin DOMAIN m
                /\ ~Contains(text, varName \o " =") /\ ~Contains(text, varName \o "=")
             THEN [lines |-> SetLine(ls, k, Indent(line) \o varName \o " = " \o varType \o ";"),
                   vars |-> MapSet(m, varName, varType)]
        ELSE same

RECURSIVE SecondSweepFrom(_, _, _, _)
SecondSweepFrom(ls, text, k, m) ==
    IF k > Len(ls) THEN [lines |-> ls, vars |-> m]
    ELSE Only({SecondSweepFrom(r.lines, text, k + 1, r.vars) :
               r \in {SecondSweepLine(ls, text, k, m)}})

\* main.go:999-1040
SecondSweep(text, m) ==
    Only({[code |-> Join(r.lines, "\n"), vars |-> r.vars] :
          r \in {SecondSweepFrom(lines, text, 1, m) : lines \in {Split(text, "\n")}}})

(***************************************************************************)
(* removeOrphanedAssignments (main.go:494-574).                            *)
(***************************************************************************)
\* main.go:542-549, without `ref == varName`
AllowList ==
    {"vec2", "vec3", "vec4", "sin", "cos", "abs", "fract", "clamp", "pow", "mix",
     "smoothstep", "exp2", "normalize", "dot", "length", "floor", "step", "iTime",
     "iResolution", "gl_FragCoord", "x", "y", "z", "w", "r", "g", "b", "a", "xy",
     "zx", "rgb", "xyyx", "time", "spd", "mm2", "tri2", "tri", "m2", "bp", "p"}

IsAllowed_NotSelf(ref, varName) == ref \in AllowList
\* main.go:542-551: the reference is skipped
IsAllowed(ref, varName) == ref \in AllowList \/ ref = varName

\* main.go:540-562: some reference of the expression is declared nowhere
\* in the text before the line
IsOrphaned(expression, varName, beforeCode) ==
    LET refs == VarRefs(expression, 1)
    IN  \E n \in 1..Len(refs) :
            /\ ~IsAllowed(refs[n], varName)
            /\ ~DeclMatch(beforeCode, refs[n], TypeNames \cup MatNames)
            /\ ~ParamMatch(beforeCode, refs[n])

\* the test of a line without the look for a parameter of that name
KeepLine_NoParam(ls, k) ==
    LET line == ls[k]
        a == AssignFind(line, TRUE)
        beforeCode == Join(SubSeq(ls, 1, k - 1), "\n")
    IN  \/ a.varName = ""
        \/ TypedLine(line)
        \/ a.varName \in Keywords
        \/ DeclMatch(beforeCode, a.varName, TypeNames \cup MatNames)
        \/ ~IsOrphaned(a.expression, a.varName, beforeCode)

\* main.go:498-570: line k of the text is kept
KeepLine(ls, k) ==
    LET line == ls[k]
        a == AssignFind(line, TRUE)
        beforeCode == Join(SubSeq(ls, 1, k - 1), "\n")
    IN  \/ a.varName = ""
        \/ TypedLine(line)
        \/ a.varName \in Keywords
        \/ ParamMatch(beforeCode, a.varName)
        \/ DeclMatch(beforeCode, a.varName, TypeNames \cup MatNames)
        \/ ~IsOrphaned(a.expression, a.varName, beforeCode)

RECURSIVE FilterLines(_, _)
FilterLines(ls, k) ==
    IF k > Len(ls) THEN <<>>
    ELSE (IF KeepLine(ls, k) THEN <<ls[k]>> ELSE <<>>) \o FilterLines(ls, k + 1)

removeOrphanedAssignments(text) ==
    Only({Join(FilterLines(lines, 1), "\n") : lines \in {Split(text, "\n")}})

(***************************************************************************)
(* fixMainImageFragColor (main.go:578-621).                                *)
(***************************************************************************)
\* main.go:599: the braces opened and not closed on lines from..to
RECURSIVE BraceCount(_, _, _)
BraceCount(ls, from, to) ==
    IF to < from THEN 0
    ELSE BraceCount(ls, from, to - 1) + Count(ls[to], "{") - Count(ls[to], "}")

\* main.go:595-604: the last line of the span searched, 1-based
MainImageEnd(ls, mainImageStart) ==
    LET P == {k \in (mainImageStart + 1)..Len(ls) : BraceCount(ls, mainImageStart, k) = 0}
    IN  IF P = {} THEN Len(ls) ELSE Min(P)

\* main.go:608-617: the line after the fix
FragColorLine(line) ==
    LET trimmed == TrimSpace(line)
    IN  IF Contains(trimmed, "vec4 fragColor =") \/ Contains(trimmed, "vec4 fragColor=")
        THEN Repeat(" ", Len(line) - Len(TrimLeftSet(line, {" ", "\t"})))
                 \o From(trimmed, Index(trimmed, "fragColor"))
        ELSE line

fixMainImageFragColor(text) ==
    LET ls == Split(text, "\n")
        S == {k \in 1..Len(ls) : Contains(TrimSpace(ls[k]), "void mainImage")}
    IN  IF S = {} THEN text
        ELSE Join([k \in 1..Len(ls) |->
                      IF Min(S) <= k /\ k <= MainImageEnd(ls, Min(S))
                      THEN FragColorLine(ls[k]) ELSE ls[k]], "\n")

(***************************************************************************)
(* The loop pass of fixShaderCode (main.go:1049-1095).  Go ranges over the *)
(* map in an order of its own choosing: every order is a possible run.     *)
(***************************************************************************)
\* main.go:1077-1084
IsUsedInLoop(loopBodyCode, varName) ==
    \/ \E suf \in {" ", ".", "+", "-", "*", "/", "="} : Contains(loopBodyCode, varName \o suf)
    \/ Contains(loopBodyCode, "(" \o varName)

\* main.go:1086-1087
InitializedBefore(beforeLoop, varName) ==
    Contains(beforeLoop, varName \o " =") \/ Contains(beforeLoop, varName \o "=")

\* main.go:1089-1090: the statement goes in at 1-based position loopStart
InsertInit(text, loopStart, varName, defaultValue) ==
    SubSeq(text, 1, loopStart - 1) \o "    " \o varName \o " = " \o defaultValue \o ";\n"
        \o From(text, loopStart)

RECURSIVE InsertAll(_, _, _, _)
InsertAll(text, loopStart, order, m) ==
    IF Len(order) = 0 THEN text
    ELSE Only({InsertAll(next, loopStart, Tail(order), m) :
               next \in {InsertInit(text, loopStart, Head(order), m[Head(order)])}})

\* the orders in which a range over the keys S may run
Orders(S) ==
    {f \in [1..Cardinality(S) -> S] : \A a, b \in 1..Cardinality(S) : a # b => f[a] # f[b]}

\* main.go:1058-1093: the texts one loop's iteration may leave
LoopInserts(text, match, m) ==
    LET loopStart == match[1]
        brace == IndexFrom(text, "{", match[2] + 1)
        beforeLoop == SubSeq(text, 1, loopStart - 1)
        need == {v \in DOMAIN m : /\ IsUsedInLoop(From(text, brace), v)
                                  /\ ~InitializedBefore(beforeLoop, v)}
    IN  IF brace = 0 THEN {text}
        ELSE {InsertAll(text, loopStart, order, m) : order \in Orders(need)}

\* main.go:1057: the loops n, n-1, ..., 1 in turn
RECURSIVE LoopResults(_, _, _, _)
LoopResults(text, matches, n, m) ==
    IF n = 0 THEN {text}
    ELSE UNION {LoopResults(t, matches, n - 1, m) : t \in LoopInserts(text, matches[n], m)}

\* main.go:1051-1095: the texts the pass may leave
LoopPass(text, m) ==
    IF Contains(text, "for(")
    THEN UNION {LoopResults(text, matches, Len(matches), m) :
                matches \in {LoopMatches(text, 1)}}
    ELSE {text}

(***************************************************************************)
(* The stages of fixShaderCode as actions (main.go:652-1098).              *)
(***************************************************************************)
startupVars == <<mode, shaderJSONData, shaderData, err, panicked, mainPass, passCode,
                 fragmentShader>>

Stage(from, to, text, m) ==
    /\ pc' = to
    /\ prev' = code
    /\ code' = text
    /\ uninitializedVars' = m
    /\ UNCHANGED startupVars
    /\ UNCHANGED <<jsonVars, argVars, scopeVars, typeVars, renderVars>>

\* main.go:654
StageRemoveComments ==
    /\ pc = "removeComments"
    /\ \E text \in {removeComments(code)} : Stage("removeComments", "firstPass", text, EmptyMap)
\* main.go:662-915
StageFirstPass ==
    /\ pc = "firstPass"
    /\ \E r \in {FirstPass(code, uninitializedVars)} :
        Stage("firstPass", "cleanup", r.code, r.vars)
\* the cleanup handing over to the orphan removal, the second sweep left out
StageCleanup_SkipSweep ==
    /\ pc = "cleanup"
    /\ \E text \in {Cleanup(code)} : Stage("cleanup", "removeOrphaned", text, uninitializedVars)
\* main.go:917-997
StageCleanup ==
    /\ pc = "cleanup"
    /\ \E text \in {Cleanup(code)} : Stage("cleanup", "secondSweep", text, uninitializedVars)
\* main.go:999-1040
StageSecondSweep ==
    /\ pc = "secondSweep"
    /\ \E r \in {SecondSweep(code, uninitializedVars)} :
        Stage("secondSweep", "removeOrphaned", r.code, r.vars)
\* main.go:1044
StageRemoveOrphaned ==
    /\ pc = "removeOrphaned"
    /\ \E text \in {removeOrphanedAssignments(code)} :
        Stage("removeOrphaned", "fixFragColor", text, uninitializedVars)
\* main.go:1047
StageFixFragColor ==
    /\ pc = "fixFragColor"
    /\ \E text \in {fixMainImageFragColor(code)} :
        Stage("fixFragColor", "loopPass", text, uninitializedVars)
\* main.go:1049-1097
StageLoopPass ==
    /\ pc = "loopPass"
    /\ \E text \in LoopPass(code, uninitializedVars) :
        Stage("loopPass", "fixed", text, uninitializedVars)

fixShaderCodeNext ==
    \/ StageRemoveComments
    \/ StageFirstPass
    \/ StageCleanup
    \/ StageSecondSweep
    \/ StageRemoveOrphaned
    \/ StageFixFragColor
    \/ StageLoopPass

\* the bytes the texts handed to removeComments alone are drawn from
CommentAlphabet == {"/", "*", "a", " ", "\n"}
MaxCommentLen == 5

\* everything but pc, passCode, prev, code and uninitializedVars at rest
IdleStartup ==
    /\ args = <<>> /\ parentHWND = 0
    /\ IdleScope /\ IdleType /\ IdleRender
    /\ mode = Nil /\ shaderJSONData = Nil /\ shaderData = NilData /\ err = Nil
    /\ panicked = FALSE /\ mainPass = 0 /\ fragmentShader = ""
    /\ IdleJSON

InitComments ==
    /\ pc = "strip"
    /\ passCode \in StringsUpTo(CommentAlphabet, MaxCommentLen)
    /\ code = passCode /\ prev = "" /\ uninitializedVars = EmptyMap
    /\ IdleStartup

\* a run of removeComments on the text
StripComments ==
    /\ pc = "strip"
    /\ prev' = code
    /\ code' = removeComments(code)
    /\ pc' = "stripped"
    /\ UNCHANGED <<mode, shaderJSONData, shaderData, err, panicked, mainPass, passCode,
                   uninitializedVars, fragmentShader>>
    /\ UNCHANGED <<jsonVars, argVars, scopeVars, typeVars, renderVars>>

\* a second run, on the output of the first
StripAgain ==
    /\ pc = "stripped"
    /\ prev' = code
    /\ code' = removeComments(code)
    /\ pc' = "stripped twice"
    /\ UNCHANGED <<mode, shaderJSONData, shaderData, err, panicked, mainPass, passCode,
                   uninitializedVars, fragmentShader>>
    /\ UNCHANGED <<jsonVars, argVars, scopeVars, typeVars, renderVars>>

NextComments == StripComments \/ StripAgain

SpecComments == InitComments /\ [][NextComments]_vars

\* C5: removeComments is idempotent: the second run returns the text it was
\* given, byte for byte.
C5_Idempotent == pc = "stripped twice" => code = prev

(***************************************************************************)
(* Startup: main, runScreensaverMode / runPreviewMode, loadEmbeddedShader  *)
(* and getMainShaderCode.  The embedded container is kept as what          *)
(* json.Unmarshal makes of it: empty data, data that fails to decode, or   *)
(* the decoded list of passes.                                             *)
(***************************************************************************)
ModeScreensaver == "ModeScreensaver"
ModePreview == "ModePreview"
ModeConfig == "ModeConfig"

\* strings.ToLower on ASCII text
ToLowerByte(c) ==
    IF c \in Upper
    THEN At("abcdefghijklmnopqrstuvwxyz", Index("ABCDEFGHIJKLMNOPQRSTUVWXYZ", c))
    ELSE c
RECURSIVE ToLower(_)
ToLower(s) == IF s = "" THEN "" ELSE ToLowerByte(At(s, 1)) \o ToLower(From(s, 2))

\* strconv.ParseUint(s, 10, 64): a non-empty run of decimal digits; the
\* range error needs twenty digits, more than an argument explored here has
RECURSIVE DecimalValue(_)
DecimalValue(s) ==
    IF s = "" THEN 0
    ELSE 10 * DecimalValue(SubSeq(s, 1, Len(s) - 1)) + (Index("0123456789", At(s, Len(s))) - 1)
ParseUint(s) ==
    IF s # "" /\ \A k \in 1..Len(s) : At(s, k) \in Digit
    THEN [ok |-> TRUE, value |-> DecimalValue(s)]
    ELSE [ok |-> FALSE, value |-> 0]

\* main.go:1276-1288: the handle of `/p:<HWND>` or of `/p <HWND>`, 0 when
\* there is none or it does not parse
PreviewHWND(as, i, argLower) ==
    IF HasPrefixAt(argLower, 1, "/p:")
    THEN IF ParseUint(From(argLower, 4)).ok THEN ParseUint(From(argLower, 4)).value ELSE 0
    ELSE IF i + 1 <= Len(as)
    THEN IF ParseUint(as[i + 1]).ok THEN ParseUint(as[i + 1]).value ELSE 0
    ELSE 0

\* main.go:1265-1290: the loop over the arguments from index i
RECURSIVE DetectFrom(_, _)
DetectFrom(as, i) ==
    IF i > Len(as) THEN [mode |-> ModeScreensaver, hwnd |-> 0]
    ELSE LET argLower == ToLower(as[i])
         IN  IF argLower = "/s" THEN [mode |-> ModeScreensaver, hwnd |-> 0]
             ELSE IF argLower = "/c" \/ HasPrefixAt(argLower, 1, "/c:")
             THEN [mode |-> ModeConfig, hwnd |-> 0]
             ELSE IF argLower = "/p" \/ HasPrefixAt(argLower, 1, "/p:")
             THEN [mode |-> ModePreview, hwnd |-> PreviewHWND(as, i, argLower)]
             ELSE DetectFrom(as, i + 1)

\* main.go:1254-1294 with a loop that ends after the first argument
detectScreensaverMode_FirstOnly(as) ==
    IF Len(as) = 0 THEN [mode |-> ModeScreensaver, hwnd |-> 0]
    ELSE DetectFrom(SubSeq(as, 1, 1), 1)

\* main.go:1254-1294
detectScreensaverMode(as) ==
    IF Len(as) = 0 THEN [mode |-> ModeScreensaver, hwnd |-> 0] ELSE DetectFrom(as, 1)

ErrEmptyData == "embedded shader data is empty"
ErrParsing == "error parsing JSON"
ErrNoPasses == "shader file contains no passes"

\* main.go:299-323, without the check of main.go:318-320
loadEmbeddedShader_NoPassCheck(data) ==
    IF data.kind = "empty" THEN [shaderData |-> NilData, err |-> ErrEmptyData]
    ELSE IF data.kind = "undecodable" THEN [shaderData |-> NilData, err |-> ErrParsing]
    ELSE [shaderData |-> Data(data.passes), err |-> Nil]

\* main.go:299-323 (preprocessJSON's error is always nil, main.go:295)
loadEmbeddedShader(data) ==
    IF data.kind = "empty" THEN [shaderData |-> NilData, err |-> ErrEmptyData]
    ELSE IF data.kind = "undecodable" THEN [shaderData |-> NilData, err |-> ErrParsing]
    ELSE IF Len(data.passes) = 0 THEN [shaderData |-> NilData, err |-> ErrNoPasses]
    ELSE [shaderData |-> Data(data.passes), err |-> Nil]

\* `if err != nil` of main.go:1514 and main.go:2099, never taken
LoadFailed_Never(e) == FALSE

\* `if err != nil` of main.go:1514 and main.go:2099
LoadFailed(e) == e # Nil

\* main.go:1106
IsMainPass(p) == p.type = "image" \/ p.name = "Image"

\* the loop of main.go:1105-1110 without its break
SelectIndex_Last(passes) ==
    LET found == {i \in 1..Len(passes) : IsMainPass(passes[i])}
    IN  IF found # {} THEN Max(found) ELSE 1

\* main.go:1104-1115: the first matching pass, else the first pass
SelectIndex(passes) ==
    LET found == {i \in 1..Len(passes) : IsMainPass(passes[i])}
    IN  IF found # {} THEN Min(found) ELSE 1

\* main.go:1140-1167; the terminating NUL byte is left out
fragmentShaderTemplate(shaderCode) ==
    "#version 330 core\nin vec2 fragCoord;\nout vec4 fragColor;\n\n"
    \o "uniform vec3 iResolution;\nuniform float iTime;\nuniform float iTimeDelta;\n"
    \o "uniform int iFrame;\nuniform float iFrameRate;\nuniform vec4 iMouse;\n"
    \o "uniform vec4 iDate;\nuniform float iSampleRate;\n"
    \o "uniform vec3 iChannelResolution[4];\nuniform float iChannelTime[4];\n\n"
    \o "uniform sampler2D iChannel0;\nuniform sampler2D iChannel1;\n"
    \o "uniform sampler2D iChannel2;\nuniform sampler2D iChannel3;\n"
    \o "uniform float iFade;\n\n"
    \o shaderCode
    \o "\n\nvoid main() {\n    vec2 fragCoordScreen = fragCoord * iResolution.xy;\n"
    \o "    mainImage(fragColor, fragCoordScreen);\n    fragColor.rgb *= iFade;\n}"

fixVars == <<passCode, prev, code, uninitializedVars>>

\* main.go:58
FORCE_SETTINGS_MODE == FALSE

\* the run function main calls for a mode (main.go:2352-2364)
RunFunction(m) ==
    CASE m = ModeConfig -> "runConfigMode"
      [] m = ModePreview -> "runPreviewMode"
      [] OTHER -> "runScreensaverMode"

\* main.go:2342-2365
DetectMode ==
    /\ pc = "main"
    /\ IF FORCE_SETTINGS_MODE
         THEN /\ pc' = "runConfigMode"
              /\ UNCHANGED <<mode, parentHWND>>
         ELSE \E r \in {detectScreensaverMode(args)} :
                /\ mode' = r.mode
                /\ parentHWND' = r.hwnd
                /\ pc' = RunFunction(r.mode)
    /\ UNCHANGED <<args, shaderJSONData, shaderData, err, panicked, mainPass, fragmentShader>>
    /\ UNCHANGED fixVars
    /\ UNCHANGED <<jsonVars, scopeVars, typeVars, renderVars>>

\* main.go:1444-1512 and main.go:2008-2097: the window and the OpenGL
\* context are set up before the shader is loaded; whether that succeeds is
\* the platform's answer, and log.Fatalln ends the process when it does not
StartRender ==
    /\ pc \in {"runPreviewMode", "runScreensaverMode"}
    /\ \E ok \in BOOLEAN : pc' = IF ok THEN "loadEmbeddedShader" ELSE "fatal window"
    /\ UNCHANGED <<mode, shaderJSONData, shaderData, err, panicked, mainPass, fragmentShader>>
    /\ UNCHANGED fixVars
    /\ UNCHANGED <<jsonVars, argVars, scopeVars, typeVars, renderVars>>

\* main.go:1513 and main.go:2098
LoadEmbeddedShader ==
    /\ pc = "loadEmbeddedShader"
    /\ shaderData' = loadEmbeddedShader(shaderJSONData).shaderData
    /\ err' = loadEmbeddedShader(shaderJSONData).err
    /\ pc' = "checkLoad"
    /\ UNCHANGED <<mode, shaderJSONData, panicked, mainPass, fragmentShader>>
    /\ UNCHANGED fixVars
    /\ UNCHANGED <<jsonVars, argVars, scopeVars, typeVars, renderVars>>

\* main.go:1514-1516 and main.go:2099-2101: log.Fatalf ends the process
LoadFatal ==
    /\ pc = "checkLoad"
    /\ LoadFailed(err)
    /\ pc' = "fatal"
    /\ UNCHANGED <<mode, shaderJSONData, shaderData, err, panicked, mainPass, fragmentShader>>
    /\ UNCHANGED fixVars
    /\ UNCHANGED <<jsonVars, argVars, scopeVars, typeVars, renderVars>>

\* main.go:1518 and main.go:2103: getMainShaderCode is called
LoadOK ==
    /\ pc = "checkLoad"
    /\ ~LoadFailed(err)
    /\ pc' = "getMainShaderCode"
    /\ UNCHANGED <<mode, shaderJSONData, shaderData, err, panicked, mainPass, fragmentShader>>
    /\ UNCHANGED fixVars
    /\ UNCHANGED <<jsonVars, argVars, scopeVars, typeVars, renderVars>>

\* main.go:1102-1118: a nil shaderData or an empty Passes makes the
\* selection panic (nil dereference, index out of range)
SelectMainPass ==
    /\ pc = "getMainShaderCode"
    /\ IF shaderData.nil \/ Len(shaderData.Passes) = 0
         THEN /\ panicked' = TRUE
              /\ pc' = "panic"
              /\ UNCHANGED <<mainPass, passCode, code>>
         ELSE /\ mainPass' = SelectIndex(shaderData.Passes)
              /\ passCode' = shaderData.Passes[SelectIndex(shaderData.Passes)].code
              /\ code' = shaderData.Passes[SelectIndex(shaderData.Passes)].code
              /\ pc' = "removeComments"
              /\ UNCHANGED panicked
    /\ UNCHANGED <<mode, shaderJSONData, shaderData, err, prev, uninitializedVars,
                   fragmentShader>>
    /\ UNCHANGED <<jsonVars, argVars, scopeVars, typeVars, renderVars>>

\* main.go:1140-1172
Wrap ==
    /\ pc = "fixed"
    /\ \E text \in {removeComments(fragmentShaderTemplate(code))} : fragmentShader' = text
    /\ err' = Nil
    /\ pc' = "checkExtract"
    /\ UNCHANGED <<mode, shaderJSONData, shaderData, panicked, mainPass>>
    /\ UNCHANGED fixVars
    /\ UNCHANGED <<jsonVars, argVars, scopeVars, typeVars, renderVars>>

\* main.go:1519-1521 and main.go:2104-2106
CheckExtract ==
    /\ pc = "checkExtract"
    /\ pc' = IF err # Nil THEN "fatal" ELSE "newProgram"
    /\ UNCHANGED <<mode, shaderJSONData, shaderData, err, panicked, mainPass, fragmentShader>>
    /\ UNCHANGED fixVars
    /\ UNCHANGED <<jsonVars, argVars, scopeVars, typeVars, renderVars>>

\* main.go:1535 and main.go:2120 (newProgram, main.go:1777-1876): whether
\* the text compiles and links is the driver's answer
NewProgram ==
    /\ pc = "newProgram"
    /\ \E compiled \in BOOLEAN :
        pc' = IF compiled THEN "render" ELSE "fatal compile"
    /\ UNCHANGED <<mode, shaderJSONData, shaderData, err, panicked, mainPass, fragmentShader>>
    /\ UNCHANGED fixVars
    /\ UNCHANGED <<jsonVars, argVars, scopeVars, typeVars, renderVars>>

\* the pass bodies of the containers explored
PassBodies ==
    { "void mainImage(out vec4 fragColor, in vec2 fragCoord){\nfragColor = vec4(0.0);\n}",
      "float i = .2, a;\nfor(int j=0;j<8;j++){ a += i; }\n",
      "/* open\nvec2 p = bpos.zx;}" }
MaxPasses == 2

ShaderPass == [type : {"image", "buffer"}, name : {"Image", "Buffer A"}, code : PassBodies]
PassLists == UNION {[1..n -> ShaderPass] : n \in 0..MaxPasses}
Containers ==
    {[kind |-> "empty"], [kind |-> "undecodable"]}
        \cup {[kind |-> "decoded", passes |-> ps] : ps \in PassLists}

\* the command lines of the runs explored from main through the load
StartupArgs == {<<>>, <<"/c">>, <<"/p", "12">>}

Init ==
    /\ pc = "main"
    /\ args \in StartupArgs /\ parentHWND = 0
    /\ IdleScope /\ IdleType /\ IdleRender
    /\ mode = Nil
    /\ shaderJSONData \in Containers
    /\ shaderData = NilData /\ err = Nil /\ panicked = FALSE /\ mainPass = 0
    /\ passCode = "" /\ prev = "" /\ code = "" /\ uninitializedVars = EmptyMap
    /\ fragmentShader = ""
    /\ IdleJSON

Next ==
    \/ DetectMode
    \/ StartRender
    \/ LoadEmbeddedShader
    \/ LoadFatal
    \/ LoadOK
    \/ SelectMainPass
    \/ fixShaderCodeNext
    \/ Wrap
    \/ CheckExtract
    \/ NewProgram

Spec == Init /\ [][Next]_vars

\* the positions inside fixShaderCode, and those after getMainShaderCode returned
InFix == {"removeComments", "firstPass", "cleanup", "secondSweep", "removeOrphaned",
          "fixFragColor", "loopPass", "fixed"}
Extracted == {"checkExtract", "newProgram", "render", "fatal compile"}

\* C1: whatever the body of the selected pass, fixShaderCode and
\* getMainShaderCode run without a panic and, once getMainShaderCode has
\* returned, its error is nil; an error that ends startup is one of the three
\* load failures, each for its own cause: empty embedded data, a container
\* that does not decode, an empty pass list.
C1_OnlyContainerErrors ==
    /\ ~panicked
    /\ pc # "panic"
    /\ err \in {Nil, ErrEmptyData, ErrParsing, ErrNoPasses}
    /\ pc \in InFix => err = Nil
    /\ pc \in Extracted => err = Nil /\ fragmentShader # ""
    /\ pc = "fatal" =>
        \/ err = ErrEmptyData /\ shaderJSONData.kind = "empty"
        \/ err = ErrParsing /\ shaderJSONData.kind = "undecodable"
        \/ err = ErrNoPasses /\ shaderJSONData.kind = "decoded" /\ shaderJSONData.passes = <<>>

\* C1: getMainShaderCode has returned for a body that opens a comment it never
\* closes and assigns from an undeclared name
C1_Witness ==
    /\ pc = "newProgram"
    /\ passCode = "/* open\nvec2 p = bpos.zx;}"
    /\ err = Nil
    /\ ~panicked
    /\ Contains(fragmentShader, "#version 330 core")

\* the decoded container holds no pass
ZeroPasses == shaderJSONData.kind = "decoded" /\ Len(shaderJSONData.passes) = 0

\* C2: when the decoded container has no pass, loadEmbeddedShader returns the
\* empty-pass-list error and no shader data, and in screensaver and in preview
\* mode startup ends on it: getMainShaderCode and fixShaderCode are never
\* entered, no text is produced.
C2_ZeroPassesAbort ==
    (ZeroPasses /\ pc \notin {"main", "runConfigMode", "runPreviewMode", "runScreensaverMode",
                               "fatal window", "loadEmbeddedShader"}) =>
        /\ mode \in {ModeScreensaver, ModePreview}
        /\ err = ErrNoPasses
        /\ shaderData = NilData
        /\ pc \in {"checkLoad", "fatal"}
        /\ mainPass = 0 /\ passCode = "" /\ code = "" /\ fragmentShader = ""
        /\ ~panicked

\* C2: preview mode has ended on the empty pass list
C2_Witness ==
    /\ ZeroPasses
    /\ mode = ModePreview
    /\ pc = "fatal"
    /\ err = ErrNoPasses

\* the pass the rule of C3 names: the lowest index whose pass has type
\* "image" or name "Image", index 1 when there is none
C3_Expected(passes, i) ==
    LET matching(k) == passes[k].type = "image" \/ passes[k].name = "Image"
    IN  IF \E k \in 1..Len(passes) : matching(k)
        THEN matching(i) /\ \A k \in 1..(i - 1) : ~matching(k)
        ELSE i = 1

\* C3 as stated: the rule, and for every two-pass list whose second pass has
\* type "image" the second pass is the one selected.
C3_SecondImageAlwaysSelected ==
    pc \in InFix \cup Extracted =>
        /\ C3_Expected(shaderData.Passes, mainPass)
        /\ passCode = shaderData.Passes[mainPass].code
        /\ (Len(shaderData.Passes) = 2 /\ shaderData.Passes[2].type = "image") => mainPass = 2

\* C3 amended: getMainShaderCode repairs the pass with the lowest index whose
\* type is "image" or whose name is "Image", and the pass at index 0 if there
\* is none; in a two-pass list whose second pass has type "image" the second
\* pass is selected when the first has neither type "image" nor name "Image".
C3_FirstMatchSelected ==
    pc \in InFix \cup Extracted =>
        /\ C3_Expected(shaderData.Passes, mainPass)
        /\ passCode = shaderData.Passes[mainPass].code
        /\ ( /\ Len(shaderData.Passes) = 2
             /\ shaderData.Passes[2].type = "image"
             /\ shaderData.Passes[1].type # "image"
             /\ shaderData.Passes[1].name # "Image" ) => mainPass = 2

\* C3: of two passes the first is a buffer, the second has type "image", and
\* the second one has been selected and handed to fixShaderCode
C3_Witness ==
    /\ pc = "removeComments"
    /\ Len(shaderData.Passes) = 2
    /\ shaderData.Passes[1].type = "buffer" /\ shaderData.Passes[1].name = "Buffer A"
    /\ shaderData.Passes[2].type = "image"
    /\ shaderData.Passes[1].code # shaderData.Passes[2].code
    /\ mainPass = 2
    /\ code = shaderData.Passes[2].code

(***************************************************************************)
(* fixShaderCode alone, on bodies drawn from several families:             *)
(* declaration chains, the two end-to-end bodies, entry functions in       *)
(* several layouts, loops that use a name declared after them, standalone  *)
(* names, declarations, bare assignments and spaced declarations.          *)
(***************************************************************************)
MaxIdentLen == 2
MaxLoops == 2

ChainTypes == {"vec2", "vec3", "vec4", "float", "int", "bool"}
ChainNames == StringsUpTo({"a", "b"}, MaxIdentLen) \ {""}
ChainLine(T, a, b) == T \o " " \o a \o " = .2, " \o b \o ";"
ChainBodies ==
    {ChainLine(T, ab[1], ab[2]) \o "\n" :
        T \in ChainTypes, ab \in {ab \in ChainNames \X ChainNames : ab[1] # ab[2]}}

ScenarioA == "vec2 p = bpos.zx;\n"
ScenarioB == "float i = .2, a;\nfor(int j=0;j<8;j++){ a += i; }\n"

Signature == "void mainImage(out vec4 fragColor, in vec2 fragCoord)"
SplitSignature == "void mainImage(out vec4 fragColor,\n in vec2 fragCoord)"
FragColorStatements ==
    {"vec4 fragColor = vec4(0.0);", "vec4 fragColor=vec4(0.0);", "fragColor = vec4(0.0);"}
FragColorBodies ==
    UNION {{ Signature \o " {\n" \o st \o "\n}",
             Signature \o "\n{\n" \o st \o "\n}",
             SplitSignature \o "\n{\n" \o st \o "\n}",
             Signature \o " { " \o st \o " }" } : st \in FragColorStatements}

LoopHeads == {"for(", "for (", "for\t("}
LoopText(head) == head \o "int j=0;j<8;j++){ a += 1.0; }\n"
LoopBodies ==
    {Join([k \in 1..Len(heads) |-> LoopText(heads[k])], "") \o "float a;\nx = a + 1.0;" :
        heads \in UNION {[1..n -> LoopHeads] : n \in 1..MaxLoops}}

\* two names of the map used in one loop before their declarations
TwoVarLoop == "for(int j=0;j<8;j++){ a += b * 2.0; }\nfloat a;\nfloat b;\nx = a + b * 2.0;"

\* a chain continued over two lines in a helper function: the first pass
\* records v, the cleanup deletes the line that initialised it, and the
\* standalone `v;` is left for the second sweep
MapGuard ==
    "float g(float x) {\nfloat a = 1.0,\nb = 2.0, v;\nv;\nreturn v + x;\n}\n"
        \o Signature \o " {\nfloat b;\nfloat v;\n}"

\* a standalone `v;` line, indented, in a helper function ("g") or in the
\* entry point ("mainImage"), with v declared at file scope, in the entry
\* point or in a helper that follows it, and used in each function
StandaloneLine == "  v;"
StandaloneBody(where, declGlobal, declMain, declLater) ==
    (IF declGlobal THEN "float v;\n" ELSE "")
        \o "float g(float x) {\n"
        \o (IF where = "g" THEN StandaloneLine \o "\n" ELSE "")
        \o "return v + x;\n}\n"
        \o Signature \o " {\n"
        \o (IF declMain THEN "float v;\n" ELSE "")
        \o (IF where = "mainImage" THEN StandaloneLine \o "\n" ELSE "")
        \o "fragColor = vec4(v + 1.0);\n}"
        \o (IF declLater THEN "\nfloat h(float x) {\nfloat v = x;\nreturn v;\n}" ELSE "")
StandaloneBodies ==
    {StandaloneBody(w, dg, dm, dl) :
        w \in {"g", "mainImage"}, dg \in BOOLEAN, dm \in BOOLEAN, dl \in BOOLEAN}

\* a declaration `<type> a;` at file scope and one line after it
DeclTypes == {"vec2", "float", "int", "bool"}
DeclUses ==
    {"x = a + 1.0;", "x = 1.0 + a;", "x = f(1.0, a, 2.0);", "x = 1.0;", "ba = 1.0;"}
DeclBody(T, use) == T \o " a;\n" \o use
DeclBodies == {DeclBody(T, use) : T \in DeclTypes, use \in DeclUses}

\* a helper function before the entry point, its return type written as
\* ret, with one line in the helper and some lines in the entry point
CleanupTypes == {"float", "int"}
CleanupValues == {"vec2(1.0)", "vec3(1.0)", "vec4(1.0)", "1.0", "y"}
CleanupText(ret, helperLines, mainLines) ==
    ret \o " g(" \o ret \o " y) {\n" \o helperLines \o "return y;\n}\n"
        \o Signature \o " {\n" \o mainLines \o "}"
\* the bare assignment `  x = <value>;` in the helper ("g") or in the entry
\* point ("mainImage"), with or without `float x = 1.0;` in the entry point
CleanupBody(ret, where, value, declMain) ==
    CleanupText(ret,
                IF where = "g" THEN "  x = " \o value \o ";\n" ELSE "",
                (IF declMain THEN "float x = 1.0;\n" ELSE "")
                    \o (IF where = "mainImage" THEN "  x = " \o value \o ";\n" ELSE ""))
CleanupBodies ==
    {CleanupBody(ret, w, value, dm) :
        ret \in CleanupTypes, w \in {"g", "mainImage"}, value \in CleanupValues,
        dm \in BOOLEAN}

\* a standalone `v;` in a helper function, with v declared in the entry
\* point and not used after its declaration
SweepScope ==
    "float g(float x) {\n  v;\nreturn v + x;\n}\n" \o Signature \o " {\nfloat v;\n}"

\* a name of the map that is used after a loop and not in it
AfterLoop == "for(int j=0;j<8;j++){ x += 1.0; }\nfloat a;\ny = a + 1.0;"

\* a chain and a declaration in several spacings: blanks after the comma
\* and before the semicolon
SpacingBodies ==
    {"float i = .2," \o gap \o "a" \o tail \o ";\nx = a + i;" :
        gap \in {" ", "  ", "\t"}, tail \in {"", " "}}
    \cup {"float a" \o tail \o ";\nx = a + 1.0;" : tail \in {"", " "}}

FixBodies ==
    ChainBodies \cup {ScenarioA, ScenarioB, TwoVarLoop, MapGuard, SweepScope, AfterLoop}
        \cup FragColorBodies \cup SpacingBodies
        \cup LoopBodies \cup StandaloneBodies \cup DeclBodies \cup CleanupBodies

InitFix ==
    /\ pc = "removeComments"
    /\ passCode \in FixBodies
    /\ code = passCode /\ prev = "" /\ uninitializedVars = EmptyMap
    /\ IdleStartup

SpecFix == InitFix /\ [][fixShaderCodeNext]_vars

\* the positions at which the first pass of fixShaderCode is behind
AfterFirstPass == {"cleanup", "secondSweep", "removeOrphaned", "fixFragColor", "loopPass",
                   "fixed"}

\* the zero of a declared type, as the chain rule states it
C6_Zero(T) ==
    CASE T = "vec2" -> "vec2(0.0)"
      [] T = "vec3" -> "vec3(0.0)"
      [] T = "vec4" -> "vec4(0.0)"
      [] T = "float" -> "0.0"
      [] T = "int" -> "0"
      [] T = "bool" -> "false"

\* C6: for every chain line `T a = x, b;` with distinct identifiers a and b,
\* the fixer leaves the line as `T a = x, b = <zero of T>;`: b initialised
\* with the zero of T, the declaration of a and its initializer untouched.
C6_ChainInitialised ==
    pc \in AfterFirstPass =>
        \A T \in ChainTypes : \A a \in ChainNames : \A b \in ChainNames \ {a} :
            passCode = ChainLine(T, a, b) \o "\n" =>
                Split(code, "\n")[1] =
                    T \o " " \o a \o " = .2, " \o b \o " = " \o C6_Zero(T) \o ";"

\* C8: for the body `vec2 p = bpos.zx;` with bpos undeclared, the text
\* fixShaderCode returns is empty.
C8_ScenarioAEmpty ==
    (pc = "fixed" /\ passCode = ScenarioA) => code = ""

\* the text between the first "{" after `void mainImage` and the end of the
\* text or the "}" that closes it, whichever comes first
C9_Depth(text, from, to) ==
    Cardinality({p \in from..to : At(text, p) = "{"})
        - Cardinality({p \in from..to : At(text, p) = "}"})
C9_Body(text) ==
    LET sig == Index(text, "void mainImage")
        open == IndexFrom(text, "{", sig)
        closes == {p \in (open + 1)..Len(text) : C9_Depth(text, open, p) = 0}
    IN  IF sig = 0 \/ open = 0 THEN ""
        ELSE SubSeq(text, open + 1, IF closes = {} THEN Len(text) ELSE Min(closes) - 1)

\* C9: after fixMainImageFragColor no line of the body of
\* `void mainImage(out vec4 fragColor, ...)` contains `vec4 fragColor =` or
\* `vec4 fragColor=`, whatever the layout of signature and braces.
C9_NoDuplicateFragColor ==
    pc = "loopPass" =>
        /\ ~Contains(C9_Body(code), "vec4 fragColor =")
        /\ ~Contains(C9_Body(code), "vec4 fragColor=")

\* the loop headers of a text, as <<first, last>> positions: `for`, optional
\* white space, and a parenthesis up to the first ")"
C10_Headers(text) ==
    {h \in (1..Len(text)) \X (1..Len(text)) :
        /\ HasPrefixAt(text, h[1], "for")
        /\ ~IsWord(At(text, h[1] - 1))
        /\ \E q \in (h[1] + 3)..h[2] :
            /\ At(text, q) = "("
            /\ \A r \in (h[1] + 3)..(q - 1) : IsSpace(At(text, r))
            /\ At(text, h[2]) = ")"
            /\ \A r \in q..(h[2] - 1) : At(text, r) # ")"}

\* the body of the loop with header h: from its "{" to the next "}"
C10_LoopBody(text, h) ==
    LET open == IndexFrom(text, "{", h[2])
        close == IndexFrom(text, "}", open)
    IN  IF open = 0 \/ close = 0 THEN "" ELSE SubSeq(text, open, close)

\* name v occurs as a whole word in text
C10_Refers(text, v) ==
    \E p \in 1..Len(text) :
        /\ HasPrefixAt(text, p, v)
        /\ ~IsWord(At(text, p - 1))
        /\ ~IsWord(At(text, p + Len(v)))

\* text ends with the statement stmt on a line of its own
C10_OwnLine(text, stmt) ==
    /\ HasSuffix(text, stmt)
    /\ LET before == TrimRightSet(SubSeq(text, 1, Len(text) - Len(stmt)), {" ", "\t"})
       IN  before = "" \/ HasSuffix(before, "\n")

\* C10: for every loop whose body refers to a name of the map that has no
\* assignment in the text before the loop header, the loop pass puts the
\* statement `<name> = <default>;` directly before that header, once per
\* such loop.
C10_LoopsPreinitialised ==
    pc = "fixed" =>
        \A v \in DOMAIN uninitializedVars :
            LET stmt == v \o " = " \o uninitializedVars[v] \o ";\n"
                due == {h \in C10_Headers(prev) :
                           /\ C10_Refers(C10_LoopBody(prev, h), v)
                           /\ ~Contains(SubSeq(prev, 1, h[1] - 1), v \o " =")
                           /\ ~Contains(SubSeq(prev, 1, h[1] - 1), v \o "=")}
                done == {h \in C10_Headers(code) :
                            C10_OwnLine(SubSeq(code, 1, h[1] - 1), stmt)}
            IN  Cardinality(done) = Cardinality(due)

\* C11: fixShaderCode is deterministic: the loop pass, the one stage that
\* ranges over the map, can leave only one text, whatever the order in which
\* the names of the map are visited.
C11_Deterministic ==
    pc = "loopPass" => Cardinality(LoopPass(code, uninitializedVars)) = 1

\* the stages in the order of the source
C12_Order ==
    {<<"removeComments", "firstPass">>, <<"firstPass", "cleanup">>,
     <<"cleanup", "secondSweep">>, <<"secondSweep", "removeOrphaned">>,
     <<"removeOrphaned", "fixFragColor">>, <<"fixFragColor", "loopPass">>,
     <<"loopPass", "fixed">>}

\* the text a stage that hands the map on would leave had the map been empty
C12_WithoutMap(stage) ==
    CASE stage = "firstPass" -> FirstPass(code, EmptyMap).code
      [] stage = "secondSweep" -> SecondSweep(code, EmptyMap).code
      [] OTHER -> code'

\* C12 (as stated): every step of a repair run is the next stage of the
\* fixed order, the map is empty when the fixes start, and only the last
\* stage reads the map: what any earlier stage leaves does not depend on
\* what the map holds.
C12_MapReadByLastStageOnly ==
    [][/\ <<pc, pc'>> \in C12_Order
       /\ pc = "removeComments" => uninitializedVars' = EmptyMap
       /\ pc # "loopPass" => code' = C12_WithoutMap(pc)]_vars

\* C12 (amended): every step of a repair run is the next stage of the fixed
\* order, the map is empty when the fixes start, and it is read only by the
\* second sweep for standalone names and by the last stage.
C12_MapReadBySweepAndLastStage ==
    [][/\ <<pc, pc'>> \in C12_Order
       /\ pc = "removeComments" => uninitializedVars' = EmptyMap
       /\ pc \notin {"loopPass", "secondSweep"} => code' = C12_WithoutMap(pc)]_vars

\* the second sweep has run after the cleanup and has left a standalone
\* name alone because the map held it
C12_Witness ==
    /\ pc = "removeOrphaned"
    /\ uninitializedVars # EmptyMap
    /\ code = prev
    /\ code # SecondSweep(prev, EmptyMap).code

\* the zero values a standalone name can be given
C19_Zeros == {"0.0", "0", "false", "vec2(0.0)", "vec3(0.0)", "vec4(0.0)"}

\* the standalone line of the text has come out of the first pass as an
\* assignment of a zero value, indented as it was
C19_Rewritten ==
    \E k \in 1..Len(Split(prev, "\n")) :
        /\ Split(prev, "\n")[k] = StandaloneLine
        /\ \E z \in C19_Zeros : Split(code, "\n")[k] = "  v = " \o z \o ";"

\* C19: a standalone `<ident>;` line is left alone on scope grounds only
\* when its enclosing function is not the entry point and the identifier is
\* declared in the entry point or at file scope before the first function;
\* in every other case in which the identifier is used, the first pass
\* rewrites the line to `<ident> = <zero value>;` with its indentation.
C19_ScopeExemption ==
    pc = "cleanup" =>
        \A w \in {"g", "mainImage"}, dg \in BOOLEAN, dm \in BOOLEAN, dl \in BOOLEAN :
            (passCode = StandaloneBody(w, dg, dm, dl) /\ ~(w = "g" /\ (dg \/ dm)))
                => C19_Rewritten

\* the zero of a declared type, as the declaration rule states it
C20_Zero(T) ==
    CASE T = "vec2" -> "vec2(0.0)"
      [] T = "vec3" -> "vec3(0.0)"
      [] T = "vec4" -> "vec4(0.0)"
      [] T = "float" -> "0.0"
      [] T = "int" -> "0"
      [] T = "bool" -> "false"

\* the name v is referenced in text: it occurs there as a whole word
C20_Referenced(text, v) ==
    \E p \in 1..Len(text) :
        /\ HasPrefixAt(text, p, v)
        /\ ~IsWord(At(text, p - 1))
        /\ ~IsWord(At(text, p + Len(v)))

\* C20: a line `<type> <ident>;` that passes the scope check comes out of
\* the first pass as `<type> <ident> = <zero of the declared type>;`, with
\* that zero recorded in the map, exactly when the identifier is referenced
\* in the text after the line; otherwise the line is unchanged and nothing
\* is recorded.
C20_DeclaredZero ==
    pc = "cleanup" =>
        \A T \in DeclTypes, use \in DeclUses :
            passCode = DeclBody(T, use) =>
                IF C20_Referenced(use, "a")
                THEN /\ Split(code, "\n")[1] = T \o " a = " \o C20_Zero(T) \o ";"
                     /\ "a" \in DOMAIN uninitializedVars
                     /\ uninitializedVars["a"] = C20_Zero(T)
                ELSE /\ Split(code, "\n")[1] = T \o " a;"
                     /\ "a" \notin DOMAIN uninitializedVars

\* the type the cleanup is to declare for an assigned value: the vector type
\* of its constructor call, float without one
C21_Type(value) ==
    CASE Contains(value, "vec2(") -> "vec2"
      [] Contains(value, "vec3(") -> "vec3"
      [] Contains(value, "vec4(") -> "vec4"
      [] OTHER -> "float"

\* the text the cleanup is to make of a body whose helper holds the bare
\* assignment: the line deleted when x is declared in the entry point, and
\* otherwise declared with the type of its value, indented as it was
C21_Expected(ret, value, declMain) ==
    CleanupText(ret,
                IF declMain THEN ""
                ELSE "  " \o C21_Type(value) \o " x = " \o value \o ";\n",
                IF declMain THEN "float x = 1.0;\n" ELSE "")

\* C21: the cleanup deletes a bare assignment `<ident> = <value>;` that
\* lies in a function other than the entry point, with no typed declaration
\* of <ident> earlier in the text, when <ident> is declared in the entry
\* point, and otherwise replaces it in place by `<T> <ident> = <value>;`
\* with T the vector type of the constructor call in <value> and float when
\* there is none; afterwards no line of the text is empty or blank.
C21_CleanupOutsideEntryPoint ==
    pc = "secondSweep" =>
        /\ \A ret \in CleanupTypes, value \in CleanupValues, dm \in BOOLEAN :
              passCode = CleanupBody(ret, "g", value, dm) =>
                  code = C21_Expected(ret, value, dm)
        /\ \A k \in 1..Len(Split(code, "\n")) : TrimSpace(Split(code, "\n")[k]) # ""

C22_Scope(text, value) ==
    LET ls == Split(text, "\n")
    IN  findFunctionScope(ls, Only({k \in 1..Len(ls) : ls[k] = "  x = " \o value \o ";"}))

C23_FirstPassSkips(ls, k, v) ==
    \/ v \in Keywords
    \/ DeclaredInMainImage(ls, v)
    \/ DeclaredBeforeFirstFunction(ls, k, v)

\* C23: the second sweep rewrites a line only if it is a standalone
\* `<ident>;` that the standalone rules of the first pass would not have
\* skipped (keywords, declarations in the entry point or at file scope), and
\* never when <ident> is already in the repair-state map.
C23_SweepKeepsSkipRules ==
    [][pc = "secondSweep" =>
          \A k \in 1..Len(Split(code, "\n")) :
              Split(code', "\n")[k] # Split(code, "\n")[k] =>
                  /\ StandaloneFind(Split(code, "\n")[k]) # ""
                  /\ ~C23_FirstPassSkips(Split(code, "\n"), k,
                                         StandaloneFind(Split(code, "\n")[k]))
                  /\ StandaloneFind(Split(code, "\n")[k]) \notin DOMAIN uninitializedVars]_vars

\* the loops of the text before the loop pass that are due a statement for
\* v: v is referred to in the loop's own body and is not assigned before
\* the header
C27_Due(v) ==
    {h \in C10_Headers(prev) :
        /\ C10_Refers(C10_LoopBody(prev, h), v)
        /\ ~Contains(SubSeq(prev, 1, h[1] - 1), v \o " =")
        /\ ~Contains(SubSeq(prev, 1, h[1] - 1), v \o "=")}
\* the loops of the text after the loop pass with the statement for v on
\* the line before the header
C27_Done(v) ==
    {h \in C10_Headers(code) :
        C10_OwnLine(SubSeq(code, 1, h[1] - 1), v \o " = " \o uninitializedVars[v] \o ";\n")}

\* C27: the loop pass inserts an initialization before a loop only for a
\* name of the map that is referred to in that loop's own body and has no
\* assignment before the loop header; it inserts nothing else, nothing for
\* the name a of `float i = .2, a;` that the first pass initialised before
\* the loop, and nothing when the text holds no `for(`.
C27_InsertsOnlyWhenDue ==
    pc = "fixed" =>
        /\ \A v \in DOMAIN uninitializedVars :
              Cardinality(C27_Done(v)) <= Cardinality(C27_Due(v))
        /\ (\A v \in DOMAIN uninitializedVars : C27_Done(v) = {}) => code = prev
        /\ ~Contains(prev, "for(") => code = prev
        /\ passCode = ScenarioB => code = prev

\* C28: every name the first pass has recorded in the map stands for a fix
\* that was applied: the text it leaves holds `<ident> = <value>;` with the
\* recorded value, whatever the spacing of the declaration was.
C28_RecordedMeansRewritten ==
    pc = "cleanup" =>
        \A v \in DOMAIN uninitializedVars :
            Contains(code, v \o " = " \o uninitializedVars[v] \o ";")

(***************************************************************************)
(* removeOrphanedAssignments alone, on an assignment line                  *)
(* `<ident> = <expr>;` behind one of several texts.                        *)
(***************************************************************************)
MaxOperands == 2

OrphanIdents == {"q", "c", "bpos", "while", "float", "vec2 q"}
Operands == {"q", "bpos", "iTime", "sin(q)", "1.0", "c.xy", "vec2(bp)"}
OperandLists == UNION {[1..n -> Operands] : n \in 1..MaxOperands}
AssignLine(ident, ops) == ident \o " = " \o Join(ops, " * ") \o ";"
OrphanPrefixes ==
    {"", "float q;\n", "vec2 bpos = vec2(0.0);\n", "void f(in float q, out vec2 c) {\n",
     "bpos = q;\n"}
OrphanTexts ==
    {pre \o AssignLine(ident, ops) :
        pre \in OrphanPrefixes, ident \in OrphanIdents, ops \in OperandLists}

InitOrphan ==
    /\ pc = "removeOrphaned"
    /\ passCode \in OrphanTexts
    /\ code = passCode /\ prev = "" /\ uninitializedVars = EmptyMap
    /\ IdleStartup

NextOrphan == StageRemoveOrphaned

SpecOrphan == InitOrphan /\ [][NextOrphan]_vars

\* the identifier-shaped tokens of each operand
C7_Tokens(operand) ==
    CASE operand = "q" -> {"q"}
      [] operand = "bpos" -> {"bpos"}
      [] operand = "iTime" -> {"iTime"}
      [] operand = "sin(q)" -> {"sin", "q"}
      [] operand = "1.0" -> {}
      [] operand = "c.xy" -> {"c", "xy"}
      [] operand = "vec2(bp)" -> {"vec2", "bp"}

\* line is `<ident> = <expr>;` and every identifier-shaped token of <expr> is
\* on the allow-list or is <ident>
C7_AllowedOnly(line) ==
    \E ident \in OrphanIdents : \E ops \in OperandLists :
        /\ line = AssignLine(ident, ops)
        /\ \A k \in 1..Len(ops) : C7_Tokens(ops[k]) \subseteq AllowList \cup {ident}

\* how often line occurs among the lines ls
C7_Occurrences(ls, line) == Cardinality({k \in 1..Len(ls) : ls[k] = line})

\* C7: removeOrphanedAssignments deletes no line `<ident> = <expr>;` whose
\* expression holds only allow-listed tokens and <ident> itself, whatever
\* text precedes the line.
C7_AllowListedKept ==
    pc = "fixFragColor" =>
        \A k \in 1..Len(Split(prev, "\n")) :
            C7_AllowedOnly(Split(prev, "\n")[k]) =>
                C7_Occurrences(Split(code, "\n"), Split(prev, "\n")[k])
                    = C7_Occurrences(Split(prev, "\n"), Split(prev, "\n")[k])

\* C7: the line before was deleted as orphaned, and the line that refers to
\* an allow-listed function and to the name it assigns was kept
C7_Witness ==
    /\ pc = "fixFragColor"
    /\ prev = "bpos = q;\nq = sin(q) * iTime;"
    /\ code = "q = sin(q) * iTime;"

\* the lines of a text, none for the empty text
C26_Lines(text) == IF text = "" THEN <<>> ELSE Split(text, "\n")

\* line k is one that must stay: it starts with a type keyword, or its
\* target is a control-flow keyword, has a typed declaration earlier in the
\* text, or appears earlier as an in/out/inout parameter
C26_MustStay(ls, k) ==
    LET target == AssignFind(ls[k], TRUE).varName
        beforeCode == Join(SubSeq(ls, 1, k - 1), "\n")
    IN  \/ \E T \in TypeNames \cup MatNames :
              HasPrefixAt(TrimLeftSet(ls[k], {" ", "\t"}), 1, T \o " ")
        \/ target \in Keywords
        \/ target # "" /\ DeclMatch(beforeCode, target, TypeNames \cup MatNames)
        \/ target # "" /\ ParamMatch(beforeCode, target)

\* the lines out from j on are the lines ls from i on with some lines left
\* out, none of them a line that must stay
RECURSIVE C26_Embeds(_, _, _, _)
C26_Embeds(ls, out, i, j) ==
    IF i > Len(ls) THEN j > Len(out)
    ELSE \/ j <= Len(out) /\ ls[i] = out[j] /\ C26_Embeds(ls, out, i + 1, j + 1)
         \/ ~C26_MustStay(ls, i) /\ C26_Embeds(ls, out, i + 1, j)

RECURSIVE C14_Lines(_, _, _)
C14_Lines(ls, k, inBlockComment) ==
    IF k > Len(ls) THEN ""
    ELSE LET r == ProcessLine(ls[k], 1, inBlockComment, "")
         IN  (IF TrimSpace(r.line) # "" \/ r.inBlockComment THEN r.line \o "\n" ELSE "")
                 \o C14_Lines(ls, k + 1, r.inBlockComment)

\* C14: removeComments writes a processed line exactly when it has
\* non-whitespace content or a block comment is still open at the end of the
\* line; a line left empty that ends outside a block comment is not written.
C14_EmitRule ==
    pc = "stripped" => code = C14_Lines(Split(prev, "\n"), 1, FALSE)

\* the two-state machine over the bytes of a whole text, from position k:
\* the bytes it copies, line ends apart.  In a block comment only `*/` is
\* looked for; otherwise `/*` opens a block comment, `//` skips to the end
\* of the line, and any other byte is copied.
RECURSIVE C15_Scan(_, _, _)
C15_Scan(text, k, inBlockComment) ==
    IF k > Len(text) THEN ""
    ELSE IF At(text, k) = "\n" THEN C15_Scan(text, k + 1, inBlockComment)
    ELSE IF inBlockComment
    THEN IF At(text, k) = "*" /\ At(text, k + 1) = "/"
         THEN C15_Scan(text, k + 2, FALSE)
         ELSE C15_Scan(text, k + 1, TRUE)
    ELSE IF At(text, k) = "/" /\ At(text, k + 1) = "*" THEN C15_Scan(text, k + 2, TRUE)
    ELSE IF At(text, k) = "/" /\ At(text, k + 1) = "/"
    THEN LET nl == IndexFrom(text, "\n", k)
         IN  IF nl = 0 THEN "" ELSE C15_Scan(text, nl, FALSE)
    ELSE At(text, k) \o C15_Scan(text, k + 1, FALSE)

\* a text without its line ends
C15_Bytes(text) == Join(Split(text, "\n"), "")

RECURSIVE C15_Line(_, _, _, _)
C15_Line(line, k, inBlockComment, out) ==
    IF k > Len(line) THEN [out |-> out, open |-> inBlockComment]
    ELSE IF inBlockComment
    THEN IF At(line, k) = "*" /\ At(line, k + 1) = "/"
         THEN C15_Line(line, k + 2, FALSE, out)
         ELSE C15_Line(line, k + 1, TRUE, out)
    ELSE IF At(line, k) = "/" /\ At(line, k + 1) = "*" THEN C15_Line(line, k + 2, TRUE, out)
    ELSE IF At(line, k) = "/" /\ At(line, k + 1) = "/" THEN [out |-> out, open |-> FALSE]
    ELSE C15_Line(line, k + 1, FALSE, out \o At(line, k))

\* the bytes copied from the lines of a text, those of a line dropped when
\* they are all white space and a block comment is open at the line's end
RECURSIVE C15_Kept(_, _, _)
C15_Kept(ls, k, inBlockComment) ==
    IF k > Len(ls) THEN ""
    ELSE LET m == C15_Line(ls[k], 1, inBlockComment, "")
         IN  (IF TrimSpace(m.out) = "" /\ m.open THEN "" ELSE m.out)
                 \o C15_Kept(ls, k + 1, m.open)

C16_Backslashes(s, k) ==
    Max({n \in 0..(k - 1) : \A j \in (k - n)..(k - 1) : At(s, j) = "\\"})

\* the in-string state after the k-th byte read
C16_After(k) == IF k < Len(emitted) THEN emitted[k + 1].inString ELSE inString

\* C16: at every `"` byte of every input the in-string state flips exactly
\* when an even number of consecutive backslashes precedes the byte and is
\* left as it is when the number is odd; and the escape-lookahead flag is set
\* exactly when an odd number of backslashes precedes the byte about to be
\* read, so a quote that reaches the count is never rejected by it.
C16_QuoteParity ==
    /\ \A k \in 1..Len(emitted) :
          emitted[k].char = "\"" =>
              ((C16_After(k) # emitted[k].inString) <=> (C16_Backslashes(jsonStr, k) % 2 = 0))
    /\ pc = "preprocessJSON" => (escapeNext <=> (C16_Backslashes(jsonStr, idx + 1) % 2 = 1))

\* preprocessJSON has read `\"` and then `"`: the first quote, behind one
\* backslash, left the state alone and the second one flipped it
C16_Witness ==
    /\ pc = "preprocessed"
    /\ jsonStr = "\\\"\""
    /\ emitted[2].inString = FALSE /\ emitted[3].inString = FALSE
    /\ inString = TRUE

\* what has been written for the bytes read so far, in the order read
RECURSIVE C17_Written(_)
C17_Written(es) == IF Len(es) = 0 THEN "" ELSE es[1].out \o C17_Written(Tail(es))

\* C17: preprocessJSON returns a nil error for every input, unbalanced
\* quotes included, and every byte it reads outside a string literal is
\* written unchanged, once and in its place.
C17_PassThroughOutsideStrings ==
    /\ pc = "preprocessed" => (err = Nil /\ Len(emitted) = Len(jsonStr))
    /\ result = C17_Written(emitted)
    /\ \A k \in 1..Len(emitted) :
          /\ emitted[k].char = At(jsonStr, k)
          /\ ~emitted[k].inString => emitted[k].out = At(jsonStr, k)

\* preprocessJSON has returned for a text with one quote only: the line end
\* before it went through as it was, the one after it was escaped
C17_Witness ==
    /\ pc = "preprocessed"
    /\ jsonStr = "\n\"\n"
    /\ result = "\n\"\\n"
    /\ err = Nil

(***************************************************************************)
(* main alone: the mode and the run function for a command line.           *)
(***************************************************************************)
MaxArgs == 2

ArgWords == {"/s", "/S", "/c", "/C:7", "/p", "/P", "/p:12", "/P:x", "12", "0", "x", "/x", "-s"}
ArgLists == UNION {[1..n -> ArgWords] : n \in 0..MaxArgs}

InitMode ==
    /\ pc = "main"
    /\ args \in ArgLists /\ parentHWND = 0
    /\ IdleScope /\ IdleType /\ IdleRender
    /\ mode = Nil /\ shaderJSONData = Nil /\ shaderData = NilData /\ err = Nil
    /\ panicked = FALSE /\ mainPass = 0 /\ fragmentShader = ""
    /\ passCode = "" /\ prev = "" /\ code = "" /\ uninitializedVars = EmptyMap
    /\ IdleJSON

NextMode == DetectMode

SpecMode == InitMode /\ [][NextMode]_vars

\* the arguments that name a mode, whatever the case of their letters
C13_Screensaver(a) == a \in {"/s", "/S"}
C13_Config(a) == a \in {"/c", "/C"} \/ SubSeq(a, 1, Min({3, Len(a)})) \in {"/c:", "/C:"}
C13_Preview(a) == a \in {"/p", "/P"} \/ SubSeq(a, 1, Min({3, Len(a)})) \in {"/p:", "/P:"}
\* the handles written as decimal numbers among the arguments explored
C13_Handle == ("12" :> 12) @@ ("0" :> 0)

\* C13: the first argument that is /s, /c (or /c:...) or /p (or /p:...),
\* letters in either case, decides the mode: /s the screensaver, /c the
\* config dialog, /p followed by a handle the preview with that handle as
\* parent; with no such argument the mode is the screensaver; and main has
\* called the run function of that mode and no other.
C13_ModeFromFirstArgument ==
    pc # "main" =>
        LET hits == {i \in 1..Len(args) :
                        C13_Screensaver(args[i]) \/ C13_Config(args[i]) \/ C13_Preview(args[i])}
        IN  IF hits = {}
            THEN mode = ModeScreensaver /\ pc = "runScreensaverMode"
            ELSE LET i == Min(hits)
                 IN  /\ C13_Screensaver(args[i]) =>
                            mode = ModeScreensaver /\ pc = "runScreensaverMode"
                     /\ C13_Config(args[i]) => mode = ModeConfig /\ pc = "runConfigMode"
                     /\ C13_Preview(args[i]) => mode = ModePreview /\ pc = "runPreviewMode"
                     /\ (args[i] \in {"/p", "/P"} /\ i < Len(args)
                            /\ args[i + 1] \in DOMAIN C13_Handle) =>
                            parentHWND = C13_Handle[args[i + 1]]

\* main has started the preview for the command line `/P 12`: the mode
\* argument in capitals, its handle in the argument after it
C13_Witness ==
    /\ pc = "runPreviewMode"
    /\ args = <<"/P", "12">>
    /\ mode = ModePreview
    /\ parentHWND = 12

(***************************************************************************)
(* findFunctionScope alone, on a line array and a line index.              *)
(***************************************************************************)
MaxScopeLines == 3

ScopeSignatures ==
    {Signature \o " {", "float g(float x) {", "int k(int n) {"}
ScopeStatements == {"float a = 1.0;", "vec3 c = vec3(0.0);", "a += 1.0;", "}"}
ScopeLineArrays ==
    UNION {[1..n -> ScopeSignatures \cup ScopeStatements] : n \in 1..MaxScopeLines}

InitScope ==
    /\ pc = "findFunctionScope"
    /\ scopeLines \in ScopeLineArrays
    /\ scopeIndex \in 1..Len(scopeLines)
    /\ funcScope = Nil
    /\ IdleType /\ IdleRender
    /\ args = <<>> /\ parentHWND = 0
    /\ mode = Nil /\ shaderJSONData = Nil /\ shaderData = NilData /\ err = Nil
    /\ panicked = FALSE /\ mainPass = 0 /\ fragmentShader = ""
    /\ passCode = "" /\ prev = "" /\ code = "" /\ uninitializedVars = EmptyMap
    /\ IdleJSON

\* main.go:625-642: a call of findFunctionScope(lines, lineIndex)
FindFunctionScope ==
    /\ pc = "findFunctionScope"
    /\ funcScope' = findFunctionScope(scopeLines, scopeIndex)
    /\ pc' = "found"
    /\ UNCHANGED <<scopeLines, scopeIndex>>
    /\ UNCHANGED <<typeVars, renderVars>>
    /\ UNCHANGED <<mode, shaderJSONData, shaderData, err, panicked, mainPass, fragmentShader>>
    /\ UNCHANGED fixVars
    /\ UNCHANGED <<jsonVars, argVars>>

NextScope == FindFunctionScope

SpecScope == InitScope /\ [][NextScope]_vars

\* the signature lines at or before line i, and whether line i lies in the
\* body of the last of them: no closing brace line in between
C18_SignaturesUpTo(ls, i) == {k \in 1..i : ls[k] \in ScopeSignatures}
C18_InBody(ls, i) ==
    /\ C18_SignaturesUpTo(ls, i) # {}
    /\ \A k \in (Max(C18_SignaturesUpTo(ls, i)) + 1)..(i - 1) : ls[k] # "}"

\* C18: for a line inside a function body findFunctionScope returns the
\* line of the signature of the enclosing function, with the flag true
\* exactly when that function is mainImage, whatever statements precede the
\* line in the body; without a signature at or before the line it returns
\* no line (Go: -1) and false.
C18_EnclosingFunction ==
    pc = "found" =>
        /\ C18_InBody(scopeLines, scopeIndex) =>
              /\ funcScope.funcStart = Max(C18_SignaturesUpTo(scopeLines, scopeIndex))
              /\ funcScope.isMainImage <=>
                    Contains(scopeLines[funcScope.funcStart], "void mainImage(")
        /\ C18_SignaturesUpTo(scopeLines, scopeIndex) = {} =>
              funcScope = [funcStart |-> 0, isMainImage |-> FALSE]

(***************************************************************************)
(* determineVariableType alone: a line array made of a first line, some    *)
(* equal lines after it, the line `  w;` the type is asked for, and a line  *)
(* that uses a name.                                                       *)
(***************************************************************************)
MaxFill == 1

TypeHeads == {"vec3 r = u,", "float i = .2;", "r = u,", "x += 1.0;"}
TypeFillers == {"", "p = q,", "x += 1.0;"}
TypeGaps == (0..MaxFill) \cup {ChainLookback - 1 + d : d \in 0..MaxFill}
TypeUses ==
    {"", "w.z = 1.0;", "c = w.w;", "c = w.xy;", "c = w.yz;", "c = w.x;", "w += 1.0;",
     "c = f(w);", "w = 1.0;"}
TypeLineArray(head, filler, n, use) ==
    <<head>> \o [k \in 1..n |-> filler] \o <<"  w;", use>>
TypeLineArrays ==
    {TypeLineArray(head, filler, n, use) :
        head \in TypeHeads, filler \in TypeFillers, n \in TypeGaps, use \in TypeUses}

InitType ==
    /\ pc = "determineVariableType"
    /\ typeName \in {"w", "c"}
    /\ typeLines \in TypeLineArrays
    /\ typeIndex = Len(typeLines) - 1
    /\ typeValue = Nil
    /\ IdleScope /\ IdleRender
    /\ args = <<>> /\ parentHWND = 0
    /\ mode = Nil /\ shaderJSONData = Nil /\ shaderData = NilData /\ err = Nil
    /\ panicked = FALSE /\ mainPass = 0 /\ fragmentShader = ""
    /\ passCode = "" /\ prev = "" /\ code = "" /\ uninitializedVars = EmptyMap
    /\ IdleJSON

\* main.go:375-488: a call determineVariableType(varName, code, lines, lineIndex)
\* with code the text of the lines
DetermineVariableType ==
    /\ pc = "determineVariableType"
    /\ typeValue' = determineVariableType(typeName, Join(typeLines, "\n"), typeLines, typeIndex)
    /\ pc' = "typed"
    /\ UNCHANGED <<typeName, typeLines, typeIndex>>
    /\ UNCHANGED <<mode, shaderJSONData, shaderData, err, panicked, mainPass, fragmentShader>>
    /\ UNCHANGED fixVars
    /\ UNCHANGED <<jsonVars, argVars, scopeVars, renderVars>>

NextType == DetermineVariableType

SpecType == InitType /\ [][NextType]_vars

\* the type of the first typed declaration with an initializer on a line
C24_Typed(line) == TypeDeclFind(TrimSpace(line), TRUE)
\* the lines between j and i are blank or typeless lines ending in a comma
C24_Between(ls, j, i) ==
    \A k \in (j + 1)..(i - 1) :
        \/ TrimSpace(ls[k]) = ""
        \/ HasSuffix(TrimSpace(ls[k]), ",") /\ C24_Typed(ls[k]) = ""
\* the lines step 1 can take a type from: typed, among the 20 lines before
\* line i, reached over blank and typeless comma lines only, and (needComma)
\* ending in a comma themselves
C24_Sources(ls, i, needComma) ==
    {j \in Max({1, i - 20})..(i - 1) :
        /\ C24_Typed(ls[j]) # ""
        /\ needComma => HasSuffix(TrimSpace(ls[j]), ",")
        /\ C24_Between(ls, j, i)}
\* what the uses of a name give when step 1 gives nothing
C25_Usage(text, name) ==
    IF Contains(text, name \o ".w") \/ Contains(text, name \o ".z")
    THEN "vec4(0.0)" ELSE "vec2(0.0)"
\* the result when step 1 takes its type from the lines of C24_Sources
C24_Expected(needComma) ==
    IF C24_Sources(typeLines, typeIndex, needComma) = {}
    THEN C25_Usage(Join(typeLines, "\n"), typeName)
    ELSE ZeroValue(C24_Typed(typeLines[Max(C24_Sources(typeLines, typeIndex, needComma))]))

\* C24 as stated: step 1 looks at no more than the 20 lines before the
\* requested line, skips blank ones, and takes a type only from a line
\* that ends in a comma; a non-blank line that does not end in a comma
\* stops the walk and gives no type.
C24_TypeFromCommaLinesOnly ==
    pc = "typed" => typeValue = C24_Expected(TRUE)

\* C24 amended: step 1 looks at no more than the 20 lines before the
\* requested line, skips blank ones, and takes the type of the first
\* non-blank line it meets that holds `<type> <name> =`, whether or not that
\* line ends in a comma; a non-blank line that does not end in a comma and
\* holds no such declaration stops the walk without a type.
C24_TypeFromFirstTypedLine ==
    pc = "typed" => typeValue = C24_Expected(FALSE)

\* C24 witness: the type asked for the line after `float i = .2;`, a name
\* used with `.z`, came out as the zero of float
C24_Witness ==
    /\ pc = "typed"
    /\ typeLines = TypeLineArray("float i = .2;", "", 0, "w.z = 1.0;")
    /\ typeName = "w"
    /\ typeValue = "0.0"

\* C25: when the chain walk gives no type the result is vec4(0.0) if the
\* text holds `<ident>.w` or `<ident>.z` and vec2(0.0) in every other case,
\* and the result is always one of the six zero values.
C25_UsageFallback ==
    pc = "typed" =>
        /\ typeValue \in {"vec2(0.0)", "vec3(0.0)", "vec4(0.0)", "0.0", "0", "false"}
        /\ ChainWalk(typeLines, typeIndex - 1, typeIndex - ChainLookback) = "" =>
              typeValue = C25_Usage(Join(typeLines, "\n"), typeName)

\* C25 witness: no type in the chain, the name used as `w.z`, a
\* four-component zero returned
C25_Witness ==
    /\ pc = "typed"
    /\ typeLines = TypeLineArray("x += 1.0;", "", 0, "w.z = 1.0;")
    /\ typeName = "w"
    /\ ChainWalk(typeLines, typeIndex - 1, typeIndex - ChainLookback) = ""
    /\ typeValue = "vec4(0.0)"

(***************************************************************************)
(* The render loop of runScreensaverMode (main.go:2050-2340).  Time is     *)
(* counted in ticks of a tenth of a second and a fade value in tenths.     *)
(***************************************************************************)
MaxTime == 20

\* main.go:2182: the fade-in lasts 1.0 s
FadeIn == 10
\* main.go:2191 and 2328: the fade-out lasts 0.5 s
FadeOut == 5

\* the callback that stamps the press time again at every press
PressCallback_Restamp(stamp, t) == t

\* main.go:2058-2063 and 2069-2074: what a press leaves in exitStartTime
PressCallback(stamp, t) == IF stamp = 0 THEN t ELSE stamp

\* main.go:2187-2189: exitStartTime after the fade branch of a frame
FrameStamp(t, exiting, stamp) ==
    IF t - startTime >= FadeIn /\ exiting /\ stamp = 0 THEN t ELSE stamp

\* main.go:2181-2196: fadeValue of a frame that starts at t, in tenths
Fade(t, exiting, stamp) ==
    IF t - startTime < FadeIn THEN t - startTime
    ELSE IF exiting
         THEN (IF t - FrameStamp(t, exiting, stamp) < FadeOut
               THEN 10 - 2 * (t - FrameStamp(t, exiting, stamp))
               ELSE 0)
    ELSE 10

\* main.go:2326-2332: the loop is left at the end of the frame
FadeOutComplete(t, exiting, stamp) ==
    exiting /\ stamp # 0 /\ t - stamp >= FadeOut

renderIdle ==
    /\ UNCHANGED <<args, parentHWND, mode, shaderJSONData, shaderData, err, panicked,
                   mainPass, fragmentShader>>
    /\ UNCHANGED fixVars
    /\ UNCHANGED <<jsonVars, scopeVars, typeVars>>

InitRender ==
    /\ pc = "render"
    /\ now = 1 /\ startTime = 1 /\ currentTime = 0 /\ exitStartTime = 0
    /\ shouldExit = FALSE /\ pressed = FALSE /\ shouldClose = FALSE /\ fadeValue = Nil
    /\ IdleScope /\ IdleType
    /\ args = <<>> /\ parentHWND = 0
    /\ mode = ModeScreensaver /\ shaderJSONData = Nil /\ shaderData = NilData /\ err = Nil
    /\ panicked = FALSE /\ mainPass = 0 /\ fragmentShader = ""
    /\ passCode = "" /\ prev = "" /\ code = "" /\ uninitializedVars = EmptyMap
    /\ IdleJSON

\* the clock goes on while the loop runs
Tick ==
    /\ pc \in {"render", "PollEvents"}
    /\ now < MaxTime
    /\ now' = now + 1
    /\ UNCHANGED <<pc, startTime, currentTime, shouldExit, exitStartTime, fadeValue, pressed,
                   shouldClose>>
    /\ renderIdle

\* a key or a mouse button is pressed; glfw keeps the event for PollEvents
Press ==
    /\ pc \in {"render", "PollEvents"}
    /\ pressed' = TRUE
    /\ UNCHANGED <<pc, now, startTime, currentTime, shouldExit, exitStartTime, fadeValue,
                   shouldClose>>
    /\ renderIdle

\* the window is asked to close from outside
CloseRequest ==
    /\ pc \in {"render", "PollEvents"}
    /\ shouldClose' = TRUE
    /\ UNCHANGED <<pc, now, startTime, currentTime, shouldExit, exitStartTime, fadeValue,
                   pressed>>
    /\ renderIdle

\* main.go:2165-2322: the loop condition holds and a frame is drawn
Frame ==
    /\ pc = "render"
    /\ ~shouldClose
    /\ currentTime' = now
    /\ exitStartTime' = FrameStamp(now, shouldExit, exitStartTime)
    /\ fadeValue' = Fade(now, shouldExit, exitStartTime)
    /\ pc' = "PollEvents"
    /\ UNCHANGED <<now, startTime, shouldExit, pressed, shouldClose>>
    /\ renderIdle

\* main.go:2165: the loop condition fails, the window is closing
LoopClosed ==
    /\ pc = "render"
    /\ shouldClose
    /\ pc' = "closed"
    /\ UNCHANGED renderVars
    /\ renderIdle

\* main.go:2323-2332: PollEvents runs the callback of a waiting press, then
\* the loop is left if the fade-out is complete
PollEvents ==
    /\ pc = "PollEvents"
    /\ shouldExit' = (shouldExit \/ pressed)
    /\ exitStartTime' = IF pressed THEN PressCallback(exitStartTime, now) ELSE exitStartTime
    /\ pressed' = FALSE
    /\ pc' = IF FadeOutComplete(currentTime, shouldExit', exitStartTime')
             THEN "break" ELSE "render"
    /\ UNCHANGED <<now, startTime, currentTime, fadeValue, shouldClose>>
    /\ renderIdle

\* main.go:2335-2339: after the break the window is closed
GracefulExit ==
    /\ pc = "break"
    /\ shouldClose' = TRUE
    /\ pc' = "closed"
    /\ UNCHANGED <<now, startTime, currentTime, shouldExit, exitStartTime, fadeValue, pressed>>
    /\ renderIdle

NextRender ==
    \/ Tick
    \/ Press
    \/ CloseRequest
    \/ Frame
    \/ LoopClosed
    \/ PollEvents
    \/ GracefulExit

SpecRender == InitRender /\ [][NextRender]_vars

\* C29: once a press has been delivered the exit flag stays set and the
\* exit start time, once recorded, never changes; the loop is left by its
\* break exactly at the end of a frame that started at least 0.5 s after
\* the exit start time, the first such frame, during the fade-in as well.
C29_ExitAfterHalfSecond ==
    [][/\ shouldExit => shouldExit'
       /\ exitStartTime # 0 => exitStartTime' = exitStartTime
       /\ shouldExit' => exitStartTime' # 0
       /\ pc = "PollEvents" /\ pc' # pc =>
             (pc' = "break" <=> (shouldExit' /\ currentTime >= exitStartTime' + FadeOut))
       /\ pc' = "break" => pc = "PollEvents"]_vars

\* C29 witness: the loop has been left by its break while the fade-in was
\* still running
C29_Witness ==
    /\ pc = "break"
    /\ shouldExit
    /\ currentTime >= exitStartTime + FadeOut
    /\ currentTime - startTime < FadeIn

\* C30: when the loop is left because of an exit request, the last frame
\* drawn had the fade value 0.
C30_BlackAtExit ==
    pc = "break" => fadeValue = 0
====
